---- MODULE Spec2Model ----
(***************************************************************************)
(* clawish API worker: the signed-request middleware (middleware/auth.ts), *)
(* the signature helpers (utils/crypto.ts), and the handlers that run      *)
(* behind it (handlers/plaza.ts, handlers/clawfiles.ts), over the D1       *)
(* tables of migrations/0001_initial.sql.                                  *)
(*                                                                         *)
(* Every `await` of the source is a step boundary: one action is one       *)
(* database statement together with the synchronous code that follows it   *)
(* up to the next await.  Several requests are in flight at once, one per  *)
(* slot.                                                                   *)
(***************************************************************************)
EXTENDS Integers, Sequences, FiniteSets, TLC

VARIABLES
    clock,           \* Date.now(), in milliseconds
    clawfiles,       \* table clawfiles: public_key string -> row
    clawfile_profiles, \* table clawfile_profiles: public_key string -> row
    follows,         \* table follows: set of <<follower_id, following_id>>
    key_rotations,   \* table key_rotations: set of rows
    plaza_messages,  \* table plaza_messages: set of rows
    ledger_entries,  \* table ledger_entries: set of rows
    nextId,          \* source of fresh ids (crypto.randomUUID)
    warrens,         \* table warrens: set of rows
    warren_members,  \* table warren_members: set of <<warren_id, member_id>>
    warren_messages, \* table warren_messages: set of rows
    communities,     \* table communities: id -> row
    community_members, \* table community_members: set of <<community_id, member_id>>
    reqs,            \* slot -> the request in flight there and its locals
    call             \* the call of a utils/crypto.ts function under way, and its result

store == <<clawfiles, clawfile_profiles, follows, key_rotations, plaza_messages,
          ledger_entries>>
chat == <<warrens, warren_members, warren_messages, communities, community_members>>
vars == <<clock, clawfiles, clawfile_profiles, follows, key_rotations, plaza_messages,
         ledger_entries, warrens, warren_members, warren_messages, communities,
         community_members, nextId, reqs, call>>

(***************************************************************************)
(* Bounds of the model.                                                    *)
(***************************************************************************)
NumSlots == 2        \* requests in flight at once
MaxPosts == 2        \* Spec takes no new request once this many posts are stored
MaxSeqPosts == 3     \* the same for SpecSeq
MaxAuthPosts == 1    \* the same for SpecAuth and SpecApi
MaxFollows == 2      \* SpecApi takes no new request once a follower count reaches this
MaxWarrens == 2      \* SpecDm and SpecChat take no new request once this many warrens are stored
MaxMessages == 2     \* SpecChat takes no new request once this many warren messages are stored
MaxLeaves == 2       \* SpecCommunity takes no new request once a member_count is minus this
NumDays == 2         \* calendar days the clock runs through

(***************************************************************************)
(* Program constants.                                                      *)
(***************************************************************************)
MaxSkewSeconds == 60        \* auth.ts: if (skew > 60)
MsPerSecond == 1000         \* auth.ts: Date.now() / 1000
MaxContentLength == 5000    \* plaza.ts: content.length > 5000
DailyPostLimit == 1         \* plaza.ts: postCount?.count >= 1
MsPerDay == 86400000        \* toISOString().split('T')[0], date(created_at)

Slots == 1..NumSlots

(***************************************************************************)
(* JavaScript numbers, as far as the middleware uses them: an integer or   *)
(* NaN.  Every comparison with NaN is false.                               *)
(***************************************************************************)
NaN == [nan |-> TRUE, v |-> 0]
Num(n) == [nan |-> FALSE, v |-> n]
MathFloorDiv(a, d) == IF a.nan THEN NaN ELSE Num(a.v \div d)
Minus(a, b) == IF a.nan \/ b.nan THEN NaN ELSE Num(a.v - b.v)
MathAbs(a) == IF a.nan THEN NaN ELSE Num(IF a.v < 0 THEN 0 - a.v ELSE a.v)
GreaterThan(a, n) == ~a.nan /\ a.v > n

(***************************************************************************)
(* Header values.  An absent header is <<>>, a present one <<value>>.      *)
(* X-Timestamp is a string: an ISO-8601 instant (iso, with its epoch       *)
(* milliseconds) or text that Date cannot parse.                           *)
(***************************************************************************)
IsoTimestamp(ms) == [iso |-> TRUE, ms |-> ms]
UnparsableTimestamp == [iso |-> FALSE, ms |-> 0]

\* new Date(timestamp).getTime()
DateGetTime(timestamp) == IF timestamp.iso THEN Num(timestamp.ms) ELSE NaN

(***************************************************************************)
(* Public-key strings are kept as their ':'-separated segments, so         *)
(* "kA:ed25519" is <<"kA", "ed25519">>.  kA, kB, kC are the base64 texts   *)
(* of three different 32-byte Ed25519 public keys.                         *)
(***************************************************************************)
KeyPayloads == {"kA", "kB", "kC"}
pkA == <<"kA", "ed25519">>
pkB == <<"kB", "ed25519">>
pkC == <<"kC", "ed25519">>
pkRsa == <<"kA", "rsa">>
ProbedKeys == {pkA, pkC, pkRsa}

(***************************************************************************)
(* Signature strings: the base64 text of an Ed25519 signature made with    *)
(* the private key of `signer` over `msg`, or text that is not base64.     *)
(***************************************************************************)
signMessage(signer, msg) == [b64 |-> TRUE, signer |-> signer, msg |-> msg]
NotBase64 == [b64 |-> FALSE, signer |-> "", msg |-> <<>>]

\* Base64 text of bytes that are too few for an Ed25519 signature.
ShortSignature == [b64 |-> TRUE, signer |-> "", msg |-> <<>>]

\* Key payloads that are not base64, and base64 of too few bytes for a key.
NotBase64Payloads == {"!!"}
ShortPayloads == {"", "short"}

\* What a call leaves behind: a returned value or a thrown error.
Returned(value) == [threw |-> FALSE, value |-> value]
Threw == [threw |-> TRUE, value |-> FALSE]

\* ed.verify(signatureBytes, messageBytes, publicKeyBytes) on a 64-byte
\* signature and a 32-byte key
edVerify(signature, message, keyBase64) ==
    /\ signature.signer = keyBase64
    /\ signature.msg = message

\* ed.verify on any bytes.  On a key or signature of the wrong length the
\* library throws or returns false, depending on its version (`throws`).
edVerifyCall(signature, message, keyBase64, throws) ==
    IF keyBase64 \notin KeyPayloads \/ signature.signer = ""
    THEN IF throws THEN Threw ELSE Returned(FALSE)
    ELSE Returned(edVerify(signature, message, keyBase64))

\* const [keyBase64, algo] = publicKey.split(':')
SplitAlgo(publicKey) == IF Len(publicKey) >= 2 THEN publicKey[2] ELSE "undefined"

\* Lines 17-26: the statements of the try block before ed.verify throw
\* on an algorithm other than ed25519 and on text that atob cannot decode.
DecodeThrows(publicKey, signature) ==
    \/ SplitAlgo(publicKey) # "ed25519"
    \/ publicKey[1] \in NotBase64Payloads
    \/ ~signature.b64

\* A mutant of verifySignatureCall: `return ed.verify(...)` without await, so
\* an error of ed.verify leaves the function uncaught.
verifySignatureCall_noAwait(publicKey, message, signature, throws) ==
    IF DecodeThrows(publicKey, signature)
    THEN Returned(FALSE)
    ELSE edVerifyCall(signature, message, publicKey[1], throws)

\* utils/crypto.ts verifySignature: every throw is caught and gives false.
verifySignatureCall(publicKey, message, signature, throws) ==
    LET tried == IF DecodeThrows(publicKey, signature)
                 THEN Threw
                 ELSE edVerifyCall(signature, message, publicKey[1], throws)
    IN  IF tried.threw THEN Returned(FALSE) ELSE tried

\* The value verifySignature resolves to; it is the same for both library
\* behaviours.
verifySignature(publicKey, message, signature) ==
    verifySignatureCall(publicKey, message, signature, TRUE).value

\* utils/crypto.ts generateKeyPair for the key pair named k: both halves are
\* bare base64 text; the private half is named like the pair.
generateKeyPair(k) == [publicKey |-> <<k>>, privateKey |-> k]

\* utils/crypto.ts buildCanonicalString: bodyHash is the Promise of the
\* digest, which the template renders as "[object Promise]".
buildCanonicalString(method, path, timestamp, body) ==
    <<method, path, timestamp, <<"[object Promise]">>>>

\* The tables of warrens and communities are empty.
NoChat ==
    /\ warrens = {}
    /\ warren_members = {}
    /\ warren_messages = {}
    /\ communities = [id \in {} |-> 0]
    /\ community_members = {}

\* No utils/crypto.ts function is being called.
NoCall == [fn |-> "none"]

(***************************************************************************)
(* Routes.                                                                 *)
(***************************************************************************)
RouteMethod(route) ==
    CASE route = "clawfile_get" -> "GET"
      [] route = "patch_me" -> "PATCH"
      [] route = "unfollow" -> "DELETE"
      [] route = "warren_read" -> "GET"
      [] OTHER -> "POST"

RoutePath(route, param) ==
    CASE route = "plaza_post" -> <<"/api/v1/plaza">>
      [] route = "rotate" -> <<"/api/v1/clawfiles/me/rotate">>
      [] route = "register" -> <<"/api/v1/clawfiles">>
      [] route = "patch_me" -> <<"/api/v1/clawfiles/me">>
      [] route = "follow" -> <<"/api/v1/follows">>
      [] route = "unfollow" -> <<"/api/v1/follows/", param>>
      [] route = "community_create" -> <<"/api/v1/communities">>
      [] route = "community_join" -> <<"/api/v1/communities/", param, "/join">>
      [] route = "community_leave" -> <<"/api/v1/communities/", param, "/leave">>
      [] route = "warren_create" -> <<"/api/v1/warrens">>
      [] route = "warren_read" -> <<"/api/v1/warrens/", param, "/messages">>
      [] route = "warren_send" -> <<"/api/v1/warrens/", param, "/messages">>
      [] OTHER -> <<"/api/v1/clawfiles/", param>>

\* requireAuth on the signed routes, optionalAuth on GET /clawfiles/:id;
\* POST /clawfiles runs without the middleware.
RouteRequired(route) == route # "clawfile_get"

\* hex(sha256(body)): collision-free
Sha256Hex(body) == <<"sha256", body>>

\* A mutant of canonicalString: the digest is not awaited, so the text of a
\* pending Promise stands where the body hash should.
canonicalString_pendingHash(method, path, timestamp, body) ==
    <<method, path, timestamp, <<"[object Promise]">>>>

\* auth.ts: `${method} ${path}\n${timestamp}\n${bodyHashHex}`
canonicalString(method, path, timestamp, body) ==
    <<method, path, timestamp, Sha256Hex(body)>>

\* The query string of a URL: none, or the text from '?' on.
NoQuery == <<>>

\* c.req.url.replace(c.req.url.split('/api')[0], ''): the URL from '/api' on
UrlPath(req) == RoutePath(req.route, req.param) \o req.query

\* The canonical string of a request that carries X-Timestamp.
RequestCanonical(req) ==
    canonicalString(RouteMethod(req.route), UrlPath(req), req.timestamp[1], req.body)

(***************************************************************************)
(* Table rows.                                                             *)
(***************************************************************************)
Statuses == {"active", "rotated", "suspended", "archived"}
Tiers == 0..3

MentionName(pk) == <<"at", pk[1]>>

\* A clawfiles row without rotation pointers.
ClawfileRow(pk, status, tier) ==
    [mention_name |-> MentionName(pk),
     display_name |-> "name",
     verification_tier |-> tier,
     status |-> status,
     rotated_from |-> <<>>,
     rotated_to |-> <<>>]

\* The contents the clawfiles table may have when the worker starts.  kA is
\* absent, active at any tier, or in one of the other statuses; kB is absent
\* or an active tier-0 identity; kC is never registered.
SeedRowsA ==
    {ClawfileRow(pkA, "active", t) : t \in Tiers}
    \cup {ClawfileRow(pkA, st, 0) : st \in Statuses \ {"active"}}
SeedStores ==
    {[pk \in {pkA} |-> a] : a \in SeedRowsA}
    \cup {[pk \in {pkA, pkB} |-> IF pk = pkA THEN a ELSE ClawfileRow(pkB, "active", 0)] :
            a \in SeedRowsA}
    \cup {[pk \in {pkB} |-> ClawfileRow(pkB, "active", 0)]}
    \cup {[pk \in {} |-> ClawfileRow(pkA, "active", 0)]}

\* A clawfile_profiles row as registration and the column defaults leave it.
ProfileRow == [bio |-> "", post_count |-> 0, follower_count |-> 0, following_count |-> 0]

\* plaza.ts: 'placeholder_signature'
PlaceholderSignature == [b64 |-> FALSE, signer |-> "placeholder_signature", msg |-> <<>>]

\* SQLite date(created_at), and toISOString().split('T')[0]
DateOf(ms) == ms \div MsPerDay

(***************************************************************************)
(* Requests.  A request is its route, the route parameter, the three auth  *)
(* headers and the raw body.                                               *)
(***************************************************************************)
NoParam == <<>>
EmptyBody == [kind |-> "empty"]
PostBody(len, reply_to) == [kind |-> "post", content_length |-> len, reply_to |-> reply_to]
RotateBody(new_key, rotation_signature) ==
    [kind |-> "rotate", new_key |-> new_key, rotation_signature |-> rotation_signature]

\* "I rotate to new_key", the statement a rotation proof signs
RotationStatement(old_key, new_key) == <<"rotate", old_key, new_key>>

\* The body of POST /clawfiles.  verification_tier, status and rotated_from are
\* fields the handler does not read; a client may send them all the same.
RegisterBody(public_key, mention_name, display_name, proof) ==
    [kind |-> "register", public_key |-> public_key, mention_name |-> mention_name,
     display_name |-> display_name, proof |-> proof,
     verification_tier |-> <<>>, status |-> <<>>, rotated_from |-> <<>>]

\* Mention names: the names of the three key holders, which match
\* /^[a-zA-Z0-9_-]+$/ and have 2 to 32 characters, one name with a character
\* outside the class and one that is too short.
WellFormedMentions == {<<"at", "kA">>, <<"at", "kB">>, <<"at", "kC">>}
BadCharMention == <<"at", "k!">>
ShortMention == <<"at", "k">>

\* The proof object of a registration; its signature is any non-empty text.
SomeProof == [signature |-> "proof"]

\* The body of PATCH /clawfiles/me: each field absent, <<>>, or <<value>>.
\* bio stands for the three profile columns bio, principles and avatar_url,
\* which the handler treats alike.
PatchBody(display_name, bio, verification_tier) ==
    [kind |-> "patch", display_name |-> display_name, bio |-> bio,
     verification_tier |-> verification_tier]

FollowBody(target) == [kind |-> "follow", target |-> target]

\* The body of POST /communities: name and slug, each absent or present.
CommunityBody(name, slug) == [kind |-> "community", name |-> name, slug |-> slug]

\* The body of POST /warrens: type absent or present, members a list of
\* mention names and public keys (<<>>: absent or empty).
WarrenBody(type, members) == [kind |-> "warren", type |-> type, members |-> members]

\* The body of POST /warrens/:id/messages: content absent or present.
MessageBody(content) == [kind |-> "message", content |-> content]

\* Slugs: two that match /^[a-z0-9-]+$/ and one that does not.
WellFormedSlugs == {"den", "nest"}
BadSlug == "Den!"

PostBodies ==
    {PostBody(5, <<>>), PostBody(0, <<>>), PostBody(MaxContentLength + 1, <<>>),
     PostBody(MaxContentLength, <<1>>)}

\* A rotation to the unregistered kC with a proof by the old key, the same
\* with a proof by another key, and a rotation to kB.
RotateBodies(old_key) ==
    {RotateBody(pkC, signMessage(old_key[1], RotationStatement(old_key, pkC))),
     RotateBody(pkC, signMessage("kC", RotationStatement(old_key, pkC))),
     RotateBody(pkB, signMessage(old_key[1], RotationStatement(old_key, pkB)))}

GetParams == {pkA, MentionName(pkB)}

NoRequest ==
    [route |-> "none", param |-> NoParam, query |-> NoQuery, publicKey |-> <<>>,
     signature |-> <<>>, timestamp |-> <<>>, body |-> EmptyBody]

Request(route, param, publicKey, signature, timestamp, body) ==
    [route |-> route, param |-> param, query |-> NoQuery, publicKey |-> publicKey,
     signature |-> signature, timestamp |-> timestamp, body |-> body]

\* Route, parameter and body of the requests a client may send as `old_key`.
RouteChoices(old_key) ==
    {<<"plaza_post", NoParam, b>> : b \in PostBodies}
    \cup {<<"rotate", NoParam, b>> : b \in RotateBodies(old_key)}
    \cup {<<"clawfile_get", p, EmptyBody>> : p \in GetParams}

\* X-Timestamp values around the server's clock: on the hour, at the limit of the
\* accepted skew on both sides, one second and one millisecond beyond it.
SkewOffsetsMs ==
    {0,
     MaxSkewSeconds * MsPerSecond, 0 - MaxSkewSeconds * MsPerSecond,
     (MaxSkewSeconds + 1) * MsPerSecond, 0 - (MaxSkewSeconds + 1) * MsPerSecond,
     (MaxSkewSeconds + 1) * MsPerSecond - 1, 0 - (MaxSkewSeconds * MsPerSecond + 1)}

TimestampHeaders(now) ==
    {<<>>, <<UnparsableTimestamp>>} \cup {<<IsoTimestamp(now + o)>> : o \in SkewOffsetsMs}

\* The canonical strings of the requests that differ from `req` in exactly one
\* of method, path, timestamp and body.
NeighbourCanonicals(req) ==
    LET method == RouteMethod(req.route)
        path == RoutePath(req.route, req.param)
        timestamp == req.timestamp[1]
    IN  {canonicalString(IF method = "GET" THEN "POST" ELSE "GET", path, timestamp, req.body),
         canonicalString(method, <<"/api/v1/communities">>, timestamp, req.body),
         canonicalString(method, path,
                         IF timestamp.iso THEN IsoTimestamp(timestamp.ms + MsPerSecond)
                                          ELSE IsoTimestamp(0),
                         req.body),
         canonicalString(method, path, timestamp, [kind |-> "other"])}

\* The X-Signature values tried for a request: none, not base64, a signature
\* over another message, signatures over the request's canonical string by
\* kA and by kB, and signatures by kA made for the neighbouring requests.
SignatureHeaders(req) ==
    IF req.timestamp = <<>>
    THEN {<<>>, <<NotBase64>>, <<signMessage("kA", <<"other message">>)>>}
    ELSE {<<>>, <<NotBase64>>, <<signMessage("kA", <<"other message">>)>>}
         \cup {<<signMessage(k, RequestCanonical(req))>> : k \in {"kA", "kB"}}
         \cup {<<signMessage("kA", m)>> : m \in NeighbourCanonicals(req)}

\* Route, parameter and body of the requests whose headers are varied.
ProbedRoutes ==
    {<<"plaza_post", NoParam, PostBody(5, <<>>)>>,
     <<"plaza_post", NoParam, PostBody(5, <<1>>)>>,
     <<"rotate", NoParam, RotateBody(pkC, signMessage("kA", RotationStatement(pkA, pkC)))>>,
     <<"clawfile_get", pkA, EmptyBody>>}

\* Requests with every combination of header values, at server time `now`.
ProbingRequests(now) ==
    UNION {
        LET base == Request(rc[1], rc[2], pk, <<>>, ts, rc[3])
        IN  {[base EXCEPT !.signature = sg] : sg \in SignatureHeaders(base)} :
        rc \in ProbedRoutes, pk \in {<<>>} \cup {<<h>> : h \in ProbedKeys},
        ts \in TimestampHeaders(now)}

\* The requests of honest clients: all three headers, the client's own clock
\* equal to the server's, signed with the key the request names.
SignedRequests(now) ==
    UNION {
        {LET base == Request(rc[1], rc[2], <<pk>>, <<>>, <<IsoTimestamp(now)>>, rc[3])
         IN  [base EXCEPT !.signature = <<signMessage(pk[1], RequestCanonical(base))>>] :
            rc \in RouteChoices(pk)} :
        pk \in {pkA, pkB, pkC}}

\* The requests sent while several are in flight: a post, a reply to post 1, a
\* rotation to kC and one to kB, and a read, each by kA and by kB.
ConcurrentRoutes(old_key) ==
    {<<"plaza_post", NoParam, PostBody(5, <<>>)>>,
     <<"plaza_post", NoParam, PostBody(MaxContentLength, <<1>>)>>,
     <<"rotate", NoParam,
       RotateBody(pkC, signMessage(old_key[1], RotationStatement(old_key, pkC)))>>,
     <<"rotate", NoParam,
       RotateBody(pkB, signMessage(old_key[1], RotationStatement(old_key, pkB)))>>,
     <<"clawfile_get", pkA, EmptyBody>>}

ConcurrentRequests(now) ==
    UNION {
        {LET base == Request(rc[1], rc[2], <<pk>>, <<>>, <<IsoTimestamp(now)>>, rc[3])
         IN  [base EXCEPT !.signature = <<signMessage(pk[1], RequestCanonical(base))>>] :
            rc \in ConcurrentRoutes(pk)} :
        pk \in {pkA, pkB}}

\* The rotation requests sent while several are in flight, each by kA and by
\* kB, and a read of kA's clawfile.
RotationRequests(now) ==
    UNION {
        {LET base == Request(rc[1], rc[2], <<pk>>, <<>>, <<IsoTimestamp(now)>>, rc[3])
         IN  [base EXCEPT !.signature = <<signMessage(pk[1], RequestCanonical(base))>>] :
            rc \in {<<"rotate", NoParam, b>> : b \in RotateBodies(pk)}
                   \cup {<<"clawfile_get", pkA, EmptyBody>>}} :
        pk \in {pkA, pkB}}

(***************************************************************************)
(* A slot: the request in flight, where its code stands, and its locals.   *)
(***************************************************************************)
NoResponse == <<>>
Response(status, code, id) == <<[status |-> status, code |-> code, id |-> id]>>

IdleSlot ==
    [pc |-> "idle", req |-> NoRequest, now |-> NaN, auth |-> <<>>, resp |-> NoResponse,
     ran |-> 0, today |-> 0, id |-> 0, created_at |-> 0, target |-> <<>>, index |-> 0]

OffSlot == [IdleSlot EXCEPT !.pc = "off"]

\* c.json(..., status): the request is answered and its code has returned.
Respond(s, status, code, id) ==
    [s EXCEPT !.pc = "done", !.resp = Response(status, code, id)]

\* await next(): the handler starts and runs to its first await.
CallNext(s) == [s EXCEPT !.pc = "handler", !.ran = @ + 1]

(***************************************************************************)
(* middleware/auth.ts authMiddleware                                       *)
(***************************************************************************)
\* Math.floor(Date.now() / 1000)
ServerNow(ms) == MathFloorDiv(Num(ms), MsPerSecond)

\* Math.abs(now - Math.floor(new Date(timestamp).getTime() / 1000))
skew(now, timestamp) ==
    MathAbs(Minus(now, MathFloorDiv(DateGetTime(timestamp), MsPerSecond)))

\* A mutant of TimestampRejected: a request from a clock that is ahead is let through.
TimestampRejected_noAbs(now, timestamp) ==
    GreaterThan(Minus(now, MathFloorDiv(DateGetTime(timestamp), MsPerSecond)),
                MaxSkewSeconds)

\* if (skew > 60)
TimestampRejected(now, timestamp) == GreaterThan(skew(now, timestamp), MaxSkewSeconds)

\* if (!publicKey || !signature || !timestamp)
HeadersMissing(req) ==
    req.publicKey = <<>> \/ req.signature = <<>> \/ req.timestamp = <<>>

\* A mutant of AuthHeaders: the signature is verified before the timestamp is
\* compared with the clock.
AuthHeaders_signatureFirst(r, req) ==
    /\ reqs[r].pc = "idle"
    /\ LET s == [reqs[r] EXCEPT !.req = req, !.now = ServerNow(clock)]
       IN  reqs' = [reqs EXCEPT ![r] =
               IF HeadersMissing(req)
               THEN IF RouteRequired(req.route)
                    THEN Respond(s, 401, "missing_auth", 0)
                    ELSE CallNext(s)
               ELSE IF ~verifySignature(req.publicKey[1], RequestCanonical(req),
                                        req.signature[1])
                    THEN Respond(s, 401, "invalid_signature", 0)
               ELSE IF TimestampRejected(s.now, req.timestamp[1])
                    THEN Respond(s, 401, "timestamp_skew", 0)
                    ELSE [s EXCEPT !.pc = "lookup"]]
    /\ UNCHANGED <<call, chat, clock, store, nextId>>

\* Lines 17-47: the headers are read and the timestamp is compared with the clock.
AuthHeaders(r, req) ==
    /\ reqs[r].pc = "idle"
    /\ LET s == [reqs[r] EXCEPT !.req = req, !.now = ServerNow(clock)]
       IN  reqs' = [reqs EXCEPT ![r] =
               IF HeadersMissing(req)
               THEN IF RouteRequired(req.route)
                    THEN Respond(s, 401, "missing_auth", 0)
                    ELSE CallNext(s)
               ELSE IF TimestampRejected(s.now, req.timestamp[1])
                    THEN Respond(s, 401, "timestamp_skew", 0)
                    ELSE [s EXCEPT !.pc = "verify"]]
    /\ UNCHANGED <<call, chat, clock, store, nextId>>

\* Lines 49-70: the canonical string is built and the signature verified.
AuthVerify(r) ==
    /\ reqs[r].pc = "verify"
    /\ LET s == reqs[r]
           isValid == verifySignature(s.req.publicKey[1], RequestCanonical(s.req),
                                      s.req.signature[1])
       IN  reqs' = [reqs EXCEPT ![r] =
               IF ~isValid
               THEN Respond(s, 401, "invalid_signature", 0)
               ELSE [s EXCEPT !.pc = "lookup"]]
    /\ UNCHANGED <<call, chat, clock, store, nextId>>

\* A mutant of SelectIdentity: the status is not read from the row; the value a
\* row is created with stands in for it.
SelectIdentity_cachedStatus(table, publicKey) ==
    IF publicKey \in DOMAIN table
    THEN <<[mention_name |-> table[publicKey].mention_name,
            display_name |-> table[publicKey].display_name,
            verification_tier |-> table[publicKey].verification_tier,
            status |-> "active"]>>
    ELSE <<>>

\* SELECT mention_name, display_name, verification_tier, status FROM clawfiles
\* WHERE public_key = ?  (.first(): the row, or nothing)
SelectIdentity(table, publicKey) ==
    IF publicKey \in DOMAIN table
    THEN <<[mention_name |-> table[publicKey].mention_name,
            display_name |-> table[publicKey].display_name,
            verification_tier |-> table[publicKey].verification_tier,
            status |-> table[publicKey].status]>>
    ELSE <<>>

\* A mutant of IdentityDecision: the status of the row is not looked at.
IdentityDecision_anyStatus(s, identity) ==
    IF identity = <<>>
    THEN Respond(s, 401, "unknown_identity", 0)
    ELSE CallNext([s EXCEPT !.auth = <<[publicKey |-> s.req.publicKey[1],
                                        identity |-> identity[1]]>>])

\* A mutant of IdentityDecision: the handler is started twice.
IdentityDecision_twice(s, identity) ==
    IF identity = <<>>
    THEN Respond(s, 401, "unknown_identity", 0)
    ELSE IF identity[1].status # "active"
    THEN Respond(s, 401, "inactive_identity", 0)
    ELSE CallNext(CallNext([s EXCEPT !.auth = <<[publicKey |-> s.req.publicKey[1],
                                                 identity |-> identity[1]]>>]))

\* Lines 78-99: what the middleware does with the row it read.
IdentityDecision(s, identity) ==
    IF identity = <<>>
    THEN Respond(s, 401, "unknown_identity", 0)
    ELSE IF identity[1].status # "active"
    THEN Respond(s, 401, "inactive_identity", 0)
    ELSE CallNext([s EXCEPT !.auth = <<[publicKey |-> s.req.publicKey[1],
                                        identity |-> identity[1]]>>])

\* Lines 72-99: the identity is read and the handler started.
AuthLookup(r) ==
    /\ reqs[r].pc = "lookup"
    /\ reqs' = [reqs EXCEPT ![r] =
           IdentityDecision(reqs[r], SelectIdentity(clawfiles, reqs[r].req.publicKey[1]))]
    /\ UNCHANGED <<call, chat, clock, store, nextId>>

(***************************************************************************)
(* handlers/plaza.ts  POST /plaza                                          *)
(***************************************************************************)
\* if (!content || content.length > 5000)
ContentRejected(body) ==
    body.content_length = 0 \/ body.content_length > MaxContentLength

\* SELECT COUNT(*) FROM plaza_messages WHERE author_id = ? AND date(created_at) = ?
CountPosts(table, author_id, today) ==
    Cardinality({m \in table : m.author_id = author_id /\ DateOf(m.created_at) = today})

\* A mutant of RateLimited: one post too many is let through.
RateLimited_offByOne(postCount) == postCount > DailyPostLimit

\* if (postCount?.count >= 1)
RateLimited(postCount) == postCount >= DailyPostLimit

\* Lines 120-122: the id and the creation time are fixed before the INSERT is sent.
PreparePost(s) ==
    [s EXCEPT !.pc = "plaza_insert", !.id = nextId, !.created_at = clock]

\* Lines 109-110: if (reply_to) the parent is looked up first.
AfterRateCheck(s) ==
    IF s.req.body.reply_to # <<>> THEN [s EXCEPT !.pc = "plaza_parent"] ELSE PreparePost(s)

\* crypto.randomUUID() was called exactly when the request now stands before its INSERT.
IdTaken(r) == nextId' = IF reqs'[r].pc = "plaza_insert" THEN nextId + 1 ELSE nextId

\* A mutant of PlazaBegin: authors of tier 0 and tier 1 are sent to the count.
PlazaBegin_tierOne(r) ==
    /\ reqs[r].pc = "handler"
    /\ reqs[r].req.route = "plaza_post"
    /\ LET s == reqs[r]
       IN  reqs' = [reqs EXCEPT ![r] =
               IF ContentRejected(s.req.body)
               THEN Respond(s, 400, "bad_request", 0)
               ELSE IF s.auth[1].identity.verification_tier <= 1
               THEN [s EXCEPT !.pc = "plaza_count", !.today = DateOf(clock)]
               ELSE AfterRateCheck(s)]
    /\ IdTaken(r)
    /\ UNCHANGED <<call, chat, clock, store>>

\* Lines 76-93: the body is validated; a tier-0 author is sent to the count.
PlazaBegin(r) ==
    /\ reqs[r].pc = "handler"
    /\ reqs[r].req.route = "plaza_post"
    /\ LET s == reqs[r]
       IN  reqs' = [reqs EXCEPT ![r] =
               IF ContentRejected(s.req.body)
               THEN Respond(s, 400, "bad_request", 0)
               ELSE IF s.auth[1].identity.verification_tier = 0
               THEN [s EXCEPT !.pc = "plaza_count", !.today = DateOf(clock)]
               ELSE AfterRateCheck(s)]
    /\ IdTaken(r)
    /\ UNCHANGED <<call, chat, clock, store>>

\* Lines 94-107: today's posts of the author are counted.
PlazaCount(r) ==
    /\ reqs[r].pc = "plaza_count"
    /\ LET s == reqs[r]
           postCount == CountPosts(plaza_messages, s.auth[1].publicKey, s.today)
       IN  reqs' = [reqs EXCEPT ![r] =
               IF RateLimited(postCount)
               THEN Respond(s, 429, "rate_limited", 0)
               ELSE AfterRateCheck(s)]
    /\ IdTaken(r)
    /\ UNCHANGED <<call, chat, clock, store>>

\* Lines 110-122: SELECT 1 FROM plaza_messages WHERE id = ?
PlazaParent(r) ==
    /\ reqs[r].pc = "plaza_parent"
    /\ LET s == reqs[r]
           parent == {m \in plaza_messages : m.id = s.req.body.reply_to[1]}
       IN  reqs' = [reqs EXCEPT ![r] =
               IF parent = {}
               THEN Respond(s, 404, "not_found", 0)
               ELSE PreparePost(s)]
    /\ IdTaken(r)
    /\ UNCHANGED <<call, chat, clock, store>>

\* trg_increment_post_count: AFTER INSERT ON plaza_messages
IncrementPostCount(table, author_id) ==
    [pk \in DOMAIN table |->
        IF pk = author_id THEN [table[pk] EXCEPT !.post_count = @ + 1] ELSE table[pk]]

\* Lines 124-140: INSERT INTO plaza_messages, and the trigger it fires
PlazaInsert(r) ==
    /\ reqs[r].pc = "plaza_insert"
    /\ plaza_messages' = plaza_messages \cup
           {[id |-> reqs[r].id,
             author_id |-> reqs[r].auth[1].publicKey,
             reply_to |-> reqs[r].req.body.reply_to,
             signature |-> PlaceholderSignature,
             created_at |-> reqs[r].created_at]}
    /\ clawfile_profiles' = IncrementPostCount(clawfile_profiles, reqs[r].auth[1].publicKey)
    /\ reqs' = [reqs EXCEPT ![r].pc = "plaza_ledger"]
    /\ UNCHANGED <<call, chat, clock, clawfiles, follows, key_rotations, ledger_entries, nextId>>

\* Lines 142-157: INSERT INTO ledger_entries, then the 201 response
PlazaLedger(r) ==
    /\ reqs[r].pc = "plaza_ledger"
    /\ ledger_entries' = ledger_entries \cup
           {[actor_id |-> reqs[r].auth[1].publicKey, action |-> "post.create",
             target_id |-> reqs[r].id]}
    /\ reqs' = [reqs EXCEPT ![r] = Respond(reqs[r], 201, "created", reqs[r].id)]
    /\ UNCHANGED <<call, chat, clock, clawfiles, clawfile_profiles, follows, key_rotations, plaza_messages,
                   nextId>>

(***************************************************************************)
(* handlers/clawfiles.ts                                                   *)
(***************************************************************************)
\* if (!public_key || !mention_name || !display_name || !proof?.signature)
FieldsMissing(body) ==
    \/ body.public_key = <<>> \/ body.mention_name = <<>>
    \/ body.display_name = <<>> \/ body.proof = <<>>

\* !/^[a-zA-Z0-9_-]+$/.test(mention_name) || length < 2 || length > 32
MentionRejected(mention_name) == mention_name \notin WellFormedMentions

\* SELECT 1 FROM clawfiles WHERE mention_name = ?
MentionTaken(table, mention_name) ==
    \E pk \in DOMAIN table : table[pk].mention_name = mention_name

\* A mutant of ClawfileInsertFails: mention_name has lost its UNIQUE constraint.
ClawfileInsertFails_primaryKeyOnly(table, public_key, mention_name) ==
    public_key \in DOMAIN table

\* A mutant of ClawfileInsertFails: the statement is INSERT OR REPLACE.
ClawfileInsertFails_orReplace(table, public_key, mention_name) == FALSE

\* The INSERT into clawfiles throws: public_key TEXT PRIMARY KEY,
\* mention_name TEXT UNIQUE NOT NULL
ClawfileInsertFails(table, public_key, mention_name) ==
    public_key \in DOMAIN table \/ MentionTaken(table, mention_name)

\* The table with the row stored under public_key.
InsertRow(table, public_key, row) ==
    [pk \in DOMAIN table \cup {public_key} |-> IF pk = public_key THEN row ELSE table[pk]]

\* A mutant of NewClawfile: tier, status and predecessor are taken from the
\* body where it has them.
NewClawfile_fromBody(body) ==
    [ClawfileRow(body.public_key[1],
                 IF body.status = <<>> THEN "active" ELSE body.status[1],
                 IF body.verification_tier = <<>> THEN 0 ELSE body.verification_tier[1])
        EXCEPT !.mention_name = body.mention_name[1],
               !.display_name = body.display_name[1],
               !.rotated_from = body.rotated_from]

\* Lines 130-146: the row the handler inserts: tier 0, active, no rotation pointers.
NewClawfile(body) ==
    [ClawfileRow(body.public_key[1], "active", 0) EXCEPT
        !.mention_name = body.mention_name[1],
        !.display_name = body.display_name[1]]

\* Lines 76-109: POST /clawfiles, without middleware: the body is validated.
RegisterBegin(r, req) ==
    /\ reqs[r].pc = "idle"
    /\ req.route = "register"
    /\ LET s == [reqs[r] EXCEPT !.req = req, !.ran = 1]
       IN  reqs' = [reqs EXCEPT ![r] =
               IF FieldsMissing(req.body)
               THEN Respond(s, 400, "bad_request", 0)
               ELSE IF MentionRejected(req.body.mention_name[1])
               THEN Respond(s, 400, "invalid_mention", 0)
               ELSE [s EXCEPT !.pc = "register_select"]]
    /\ UNCHANGED <<call, chat, clock, store, nextId>>

\* Lines 111-128: the mention name is looked up.
RegisterSelect(r) ==
    /\ reqs[r].pc = "register_select"
    /\ reqs' = [reqs EXCEPT ![r] =
           IF MentionTaken(clawfiles, reqs[r].req.body.mention_name[1])
           THEN Respond(reqs[r], 409, "conflict", 0)
           ELSE [reqs[r] EXCEPT !.pc = "register_clawfile"]]
    /\ UNCHANGED <<call, chat, clock, store, nextId>>

\* Lines 130-146: INSERT INTO clawfiles.  A constraint violation is thrown out
\* of the handler and answered by errorHandler with 500 internal_error.
RegisterClawfile(r) ==
    /\ reqs[r].pc = "register_clawfile"
    /\ LET body == reqs[r].req.body
       IN  IF ClawfileInsertFails(clawfiles, body.public_key[1], body.mention_name[1])
           THEN /\ reqs' = [reqs EXCEPT ![r] = Respond(reqs[r], 500, "internal_error", 0)]
                /\ UNCHANGED clawfiles
           ELSE /\ clawfiles' = InsertRow(clawfiles, body.public_key[1], NewClawfile(body))
                /\ reqs' = [reqs EXCEPT ![r].pc = "register_profile"]
    /\ UNCHANGED <<call, chat, clock, clawfile_profiles, follows, key_rotations, plaza_messages,
                   ledger_entries, nextId>>

\* Lines 148-172: INSERT INTO clawfile_profiles (public_key PRIMARY KEY), then 201.
RegisterProfile(r) ==
    /\ reqs[r].pc = "register_profile"
    /\ LET public_key == reqs[r].req.body.public_key[1]
       IN  IF public_key \in DOMAIN clawfile_profiles
           THEN /\ reqs' = [reqs EXCEPT ![r] = Respond(reqs[r], 500, "internal_error", 0)]
                /\ UNCHANGED clawfile_profiles
           ELSE /\ clawfile_profiles' = InsertRow(clawfile_profiles, public_key, ProfileRow)
                /\ reqs' = [reqs EXCEPT ![r] = Respond(reqs[r], 201, "created", 0)]
    /\ UNCHANGED <<call, chat, clock, clawfiles, follows, key_rotations, plaza_messages,
                   ledger_entries, nextId>>

\* for (const field of allowedFields) if (body[field] !== undefined) ...
NoValidFields(body) == body.display_name = <<>> /\ body.bio = <<>>

\* if (updates.display_name): a present, non-empty display_name
UpdatesDisplayName(body) == body.display_name # <<>> /\ body.display_name[1] # ""

\* A mutant of UpdateClawfile: the statement has no WHERE clause.
UpdateClawfile_everyRow(table, public_key, body) ==
    [pk \in DOMAIN table |-> [table[pk] EXCEPT !.display_name = body.display_name[1]]]

\* A mutant of UpdateClawfile: every field of the body is written to the row.
UpdateClawfile_anyField(table, public_key, body) ==
    IF public_key \in DOMAIN table
    THEN [table EXCEPT ![public_key].display_name = body.display_name[1],
                       ![public_key].verification_tier =
                           IF body.verification_tier = <<>> THEN @
                           ELSE body.verification_tier[1]]
    ELSE table

\* UPDATE clawfiles SET display_name = ?, updated_at = ? WHERE public_key = ?
UpdateClawfile(table, public_key, body) ==
    IF public_key \in DOMAIN table
    THEN [table EXCEPT ![public_key].display_name = body.display_name[1]]
    ELSE table

\* UPDATE clawfile_profiles SET bio = ?, ... WHERE public_key = ?
UpdateProfile(table, public_key, body) ==
    IF public_key \in DOMAIN table
    THEN [table EXCEPT ![public_key].bio = body.bio[1]]
    ELSE table

\* Lines 204-215: the profile fields are written next, or the request is answered.
AfterClawfileUpdate(s) ==
    IF s.req.body.bio # <<>>
    THEN [s EXCEPT !.pc = "patch_profile"]
    ELSE Respond(s, 200, "ok", 0)

\* Lines 175-191: PATCH /clawfiles/me picks the fields it may write.
PatchBegin(r) ==
    /\ reqs[r].pc = "handler"
    /\ reqs[r].req.route = "patch_me"
    /\ LET s == reqs[r]
       IN  reqs' = [reqs EXCEPT ![r] =
               IF NoValidFields(s.req.body)
               THEN Respond(s, 400, "bad_request", 0)
               ELSE IF UpdatesDisplayName(s.req.body)
               THEN [s EXCEPT !.pc = "patch_clawfile"]
               ELSE AfterClawfileUpdate(s)]
    /\ UNCHANGED <<call, chat, clock, store, nextId>>

\* Lines 193-198: UPDATE clawfiles
PatchClawfile(r) ==
    /\ reqs[r].pc = "patch_clawfile"
    /\ clawfiles' = UpdateClawfile(clawfiles, reqs[r].auth[1].publicKey, reqs[r].req.body)
    /\ reqs' = [reqs EXCEPT ![r] = AfterClawfileUpdate(reqs[r])]
    /\ UNCHANGED <<call, chat, clock, clawfile_profiles, follows, key_rotations, plaza_messages,
                   ledger_entries, nextId>>

\* Lines 200-215: UPDATE clawfile_profiles, then the answer
PatchProfile(r) ==
    /\ reqs[r].pc = "patch_profile"
    /\ clawfile_profiles' =
           UpdateProfile(clawfile_profiles, reqs[r].auth[1].publicKey, reqs[r].req.body)
    /\ reqs' = [reqs EXCEPT ![r] = Respond(reqs[r], 200, "ok", 0)]
    /\ UNCHANGED <<call, chat, clock, clawfiles, follows, key_rotations, plaza_messages,
                   ledger_entries, nextId>>

(***************************************************************************)
(* handlers/follows.ts                                                     *)
(***************************************************************************)
\* SELECT public_key FROM clawfiles WHERE mention_name = ? OR public_key = ?
SelectTarget(table, target) ==
    {pk \in DOMAIN table : table[pk].mention_name = target \/ pk = target}

\* trg_increment_follower_count: AFTER INSERT ON follows
IncrementFollowCounts(table, follower_id, following_id) ==
    [pk \in DOMAIN table |->
        [table[pk] EXCEPT
            !.follower_count = IF pk = following_id THEN @ + 1 ELSE @,
            !.following_count = IF pk = follower_id THEN @ + 1 ELSE @]]

\* Lines 29-38: POST /follows reads the target from the body.
FollowBegin(r) ==
    /\ reqs[r].pc = "handler"
    /\ reqs[r].req.route = "follow"
    /\ reqs' = [reqs EXCEPT ![r] =
           IF reqs[r].req.body.target = <<>>
           THEN Respond(reqs[r], 400, "bad_request", 0)
           ELSE [reqs[r] EXCEPT !.pc = "follow_target"]]
    /\ UNCHANGED <<call, chat, clock, store, nextId>>

\* Lines 40-54: the target is looked up; .first() gives one of the rows found.
FollowTarget(r) ==
    /\ reqs[r].pc = "follow_target"
    /\ LET s == reqs[r]
           found == SelectTarget(clawfiles, s.req.body.target[1])
       IN  IF found = {}
           THEN reqs' = [reqs EXCEPT ![r] = Respond(s, 404, "not_found", 0)]
           ELSE \E targetClawfile \in found :
                   reqs' = [reqs EXCEPT ![r] =
                       IF targetClawfile = s.auth[1].publicKey
                       THEN Respond(s, 400, "bad_request", 0)
                       ELSE [s EXCEPT !.pc = "follow_insert",
                                      !.target = <<targetClawfile>>]]
    /\ UNCHANGED <<call, chat, clock, store, nextId>>

\* A mutant of FollowInsertFails: INSERT OR IGNORE, the statement never fails.
FollowInsertFails_orIgnore(table, row) == FALSE

\* The constraints of table follows: PRIMARY KEY (follower_id, following_id)
\* and CHECK (follower_id != following_id)
FollowInsertFails(table, row) == row \in table \/ row[1] = row[2]

\* Lines 56-70: INSERT INTO follows; every error of the statement is answered
\* 409 conflict.
FollowInsert(r) ==
    /\ reqs[r].pc = "follow_insert"
    /\ LET row == <<reqs[r].auth[1].publicKey, reqs[r].target[1]>>
       IN  IF FollowInsertFails(follows, row)
           THEN /\ reqs' = [reqs EXCEPT ![r] = Respond(reqs[r], 409, "conflict", 0)]
                /\ UNCHANGED <<follows, clawfile_profiles>>
           ELSE /\ follows' = follows \cup {row}
                /\ clawfile_profiles' =
                       IncrementFollowCounts(clawfile_profiles, row[1], row[2])
                /\ reqs' = [reqs EXCEPT ![r] = Respond(reqs[r], 201, "created", 0)]
    /\ UNCHANGED <<call, chat, clock, clawfiles, key_rotations, plaza_messages, ledger_entries, nextId>>

\* Lines 73-85: DELETE /follows/:target looks the target up.
UnfollowTarget(r) ==
    /\ reqs[r].pc = "handler"
    /\ reqs[r].req.route = "unfollow"
    /\ LET s == reqs[r]
           found == SelectTarget(clawfiles, s.req.param)
       IN  IF found = {}
           THEN reqs' = [reqs EXCEPT ![r] = Respond(s, 404, "not_found", 0)]
           ELSE \E targetClawfile \in found :
                   reqs' = [reqs EXCEPT ![r] =
                       [s EXCEPT !.pc = "unfollow_delete", !.target = <<targetClawfile>>]]
    /\ UNCHANGED <<call, chat, clock, store, nextId>>

\* A mutant of UnfollowDelete: the target's clawfile is deleted with the follow.
UnfollowDelete_targetToo(r) ==
    /\ reqs[r].pc = "unfollow_delete"
    /\ follows' = follows \ {<<reqs[r].auth[1].publicKey, reqs[r].target[1]>>}
    /\ clawfiles' = [pk \in DOMAIN clawfiles \ {reqs[r].target[1]} |-> clawfiles[pk]]
    /\ reqs' = [reqs EXCEPT ![r] = Respond(reqs[r], 200, "ok", 0)]
    /\ UNCHANGED <<call, chat, clock, clawfile_profiles, key_rotations, plaza_messages,
                   ledger_entries, nextId>>

\* Lines 87-92: DELETE FROM follows WHERE follower_id = ? AND following_id = ?
UnfollowDelete(r) ==
    /\ reqs[r].pc = "unfollow_delete"
    /\ follows' = follows \ {<<reqs[r].auth[1].publicKey, reqs[r].target[1]>>}
    /\ reqs' = [reqs EXCEPT ![r] = Respond(reqs[r], 200, "ok", 0)]
    /\ UNCHANGED <<call, chat, clock, clawfiles, clawfile_profiles, key_rotations, plaza_messages,
                   ledger_entries, nextId>>

(***************************************************************************)
(* handlers/communities.ts                                                 *)
(***************************************************************************)
\* SELECT ... FROM communities WHERE id = ? OR slug = ?
SelectCommunity(table, id) ==
    {community \in DOMAIN table : community = id \/ table[community].slug = id}

\* UPDATE communities SET member_count = member_count + by WHERE id = ?
UpdateMemberCount(table, id, by) ==
    IF id \in DOMAIN table
    THEN [table EXCEPT ![id].member_count = @ + by]
    ELSE table

\* Lines 61-80: POST /communities validates name and slug.
CommunityBegin(r) ==
    /\ reqs[r].pc = "handler"
    /\ reqs[r].req.route = "community_create"
    /\ LET body == reqs[r].req.body
       IN  reqs' = [reqs EXCEPT ![r] =
               IF body.name = <<>> \/ body.slug = <<>>
               THEN Respond(reqs[r], 400, "bad_request", 0)
               ELSE IF body.slug[1] \notin WellFormedSlugs
               THEN Respond(reqs[r], 400, "invalid_slug", 0)
               ELSE [reqs[r] EXCEPT !.pc = "community_select"]]
    /\ UNCHANGED <<call, chat, clock, store, nextId>>

\* Lines 82-89: the slug is looked up.
CommunitySelect(r) ==
    /\ reqs[r].pc = "community_select"
    /\ reqs' = [reqs EXCEPT ![r] =
           IF SelectCommunity(communities, reqs[r].req.body.slug[1]) # {}
           THEN Respond(reqs[r], 409, "conflict", 0)
           ELSE [reqs[r] EXCEPT !.pc = "community_insert"]]
    /\ UNCHANGED <<call, chat, clock, store, nextId>>

\* Lines 93-109: INSERT INTO communities, id and slug both the slug, member_count 1.
\* id is the PRIMARY KEY and slug is UNIQUE; a violation is thrown out of the
\* handler and answered 500 internal_error.
CommunityInsert(r) ==
    /\ reqs[r].pc = "community_insert"
    /\ LET slug == reqs[r].req.body.slug[1]
       IN  IF SelectCommunity(communities, slug) # {}
           THEN /\ reqs' = [reqs EXCEPT ![r] = Respond(reqs[r], 500, "internal_error", 0)]
                /\ UNCHANGED communities
           ELSE /\ communities' =
                       InsertRow(communities, slug,
                                 [slug |-> slug, owner_id |-> reqs[r].auth[1].publicKey,
                                  member_count |-> 1])
                /\ reqs' = [reqs EXCEPT ![r].pc = "community_owner"]
    /\ UNCHANGED <<call, clock, store, nextId, warrens, warren_members, warren_messages,
                   community_members>>

\* Lines 111-125: INSERT INTO community_members for the owner, then 201.
CommunityOwner(r) ==
    /\ reqs[r].pc = "community_owner"
    /\ LET row == <<reqs[r].req.body.slug[1], reqs[r].auth[1].publicKey>>
       IN  IF row \in community_members
           THEN /\ reqs' = [reqs EXCEPT ![r] = Respond(reqs[r], 500, "internal_error", 0)]
                /\ UNCHANGED community_members
           ELSE /\ community_members' = community_members \cup {row}
                /\ reqs' = [reqs EXCEPT ![r] = Respond(reqs[r], 201, "created", 0)]
    /\ UNCHANGED <<call, clock, store, nextId, warrens, warren_members, warren_messages,
                   communities>>

\* Lines 128-139 and 162-173: join and leave look the community up.
MembershipSelect(r) ==
    /\ reqs[r].pc = "handler"
    /\ reqs[r].req.route \in {"community_join", "community_leave"}
    /\ LET found == SelectCommunity(communities, reqs[r].req.param)
       IN  IF found = {}
           THEN reqs' = [reqs EXCEPT ![r] = Respond(reqs[r], 404, "not_found", 0)]
           ELSE \E community \in found :
                   reqs' = [reqs EXCEPT ![r] =
                       [reqs[r] EXCEPT
                           !.pc = IF reqs[r].req.route = "community_join"
                                  THEN "join_insert" ELSE "leave_delete",
                           !.target = <<community>>]]
    /\ UNCHANGED <<call, chat, clock, store, nextId>>

\* Lines 145-148 and 154-156: INSERT INTO community_members (PRIMARY KEY
\* (community_id, member_id)); an error is answered 409 conflict.
JoinInsert(r) ==
    /\ reqs[r].pc = "join_insert"
    /\ LET row == <<reqs[r].target[1], reqs[r].auth[1].publicKey>>
       IN  IF row \in community_members
           THEN /\ reqs' = [reqs EXCEPT ![r] = Respond(reqs[r], 409, "conflict", 0)]
                /\ UNCHANGED community_members
           ELSE /\ community_members' = community_members \cup {row}
                /\ reqs' = [reqs EXCEPT ![r].pc = "join_count"]
    /\ UNCHANGED <<call, clock, store, nextId, warrens, warren_members, warren_messages,
                   communities>>

\* Lines 150-158: member_count + 1, then 200.
JoinCount(r) ==
    /\ reqs[r].pc = "join_count"
    /\ communities' = UpdateMemberCount(communities, reqs[r].target[1], 1)
    /\ reqs' = [reqs EXCEPT ![r] = Respond(reqs[r], 200, "ok", 0)]
    /\ UNCHANGED <<call, clock, store, nextId, warrens, warren_members, warren_messages,
                   community_members>>

\* Lines 175-177: DELETE FROM community_members
LeaveDelete(r) ==
    /\ reqs[r].pc = "leave_delete"
    /\ community_members' =
           community_members \ {<<reqs[r].target[1], reqs[r].auth[1].publicKey>>}
    /\ reqs' = [reqs EXCEPT ![r].pc = "leave_count"]
    /\ UNCHANGED <<call, clock, store, nextId, warrens, warren_members, warren_messages,
                   communities>>

\* Lines 179-185: member_count - 1, then 200.
LeaveCount(r) ==
    /\ reqs[r].pc = "leave_count"
    /\ communities' = UpdateMemberCount(communities, reqs[r].target[1], 0 - 1)
    /\ reqs' = [reqs EXCEPT ![r] = Respond(reqs[r], 200, "ok", 0)]
    /\ UNCHANGED <<call, clock, store, nextId, warrens, warren_members, warren_messages,
                   community_members>>

(***************************************************************************)
(* handlers/warrens.ts                                                     *)
(***************************************************************************)
\* SELECT w.id FROM warrens w JOIN warren_members wm1 ... JOIN warren_members
\* wm2 ... WHERE w.type = 'dm': the DMs that hold both identities
ExistingDm(member_id, target) ==
    {w \in warrens : /\ w.type = "dm"
                     /\ <<w.id, member_id>> \in warren_members
                     /\ <<w.id, target>> \in warren_members}

\* A mutant of IsMember: the warren exists.
IsMember_warrenExists(warren_id, member_id) == \E w \in warrens : w.id = warren_id

\* SELECT 1 FROM warren_members WHERE warren_id = ? AND member_id = ?
IsMember(warren_id, member_id) == <<warren_id, member_id>> \in warren_members

\* Lines 49-67: POST /warrens validates type and members.
WarrenBegin(r) ==
    /\ reqs[r].pc = "handler"
    /\ reqs[r].req.route = "warren_create"
    /\ LET body == reqs[r].req.body
       IN  reqs' = [reqs EXCEPT ![r] =
               IF body.type = <<>> \/ body.type \notin {<<"dm">>, <<"group">>}
               THEN Respond(reqs[r], 400, "bad_request", 0)
               ELSE IF body.members = <<>>
               THEN Respond(reqs[r], 400, "bad_request", 0)
               ELSE IF body.type = <<"dm">> /\ Len(body.members) # 1
               THEN Respond(reqs[r], 400, "bad_request", 0)
               ELSE IF body.type = <<"dm">>
               THEN [reqs[r] EXCEPT !.pc = "warren_target"]
               ELSE [reqs[r] EXCEPT !.pc = "warren_insert"]]
    /\ UNCHANGED <<call, chat, clock, store, nextId>>

\* Lines 70-78: the target of a DM is looked up.
WarrenTarget(r) ==
    /\ reqs[r].pc = "warren_target"
    /\ LET found == SelectTarget(clawfiles, reqs[r].req.body.members[1])
       IN  IF found = {}
           THEN reqs' = [reqs EXCEPT ![r] = Respond(reqs[r], 404, "not_found", 0)]
           ELSE \E target \in found :
                   reqs' = [reqs EXCEPT ![r] =
                       [reqs[r] EXCEPT !.pc = "warren_existing", !.target = <<target>>]]
    /\ UNCHANGED <<call, chat, clock, store, nextId>>

\* Lines 80-93: a DM of the two is looked for.
WarrenExisting(r) ==
    /\ reqs[r].pc = "warren_existing"
    /\ reqs' = [reqs EXCEPT ![r] =
           IF ExistingDm(reqs[r].auth[1].publicKey, reqs[r].target[1]) # {}
           THEN Respond(reqs[r], 409, "conflict", 0)
           ELSE [reqs[r] EXCEPT !.pc = "warren_insert"]]
    /\ UNCHANGED <<call, chat, clock, store, nextId>>

\* Lines 96-103: INSERT INTO warrens under a fresh id.
WarrenInsert(r) ==
    /\ reqs[r].pc = "warren_insert"
    /\ warrens' = warrens \cup
           {[id |-> nextId, type |-> reqs[r].req.body.type[1],
             creator_id |-> reqs[r].auth[1].publicKey]}
    /\ nextId' = nextId + 1
    /\ reqs' = [reqs EXCEPT ![r].pc = "warren_creator", ![r].id = nextId]
    /\ UNCHANGED <<call, clock, store, warren_members, warren_messages, communities,
                   community_members>>

\* Lines 105-108: INSERT INTO warren_members for the creator.
WarrenCreator(r) ==
    /\ reqs[r].pc = "warren_creator"
    /\ warren_members' = warren_members \cup {<<reqs[r].id, reqs[r].auth[1].publicKey>>}
    /\ reqs' = [reqs EXCEPT ![r].pc = "warren_member", ![r].index = 1]
    /\ UNCHANGED <<call, clock, store, nextId, warrens, warren_messages, communities,
                   community_members>>

\* Lines 111 and 121-128: the loop goes on to the next member or the handler
\* answers 201.
NextMember(s) ==
    IF s.index >= Len(s.req.body.members)
    THEN Respond(s, 201, "created", s.id)
    ELSE [s EXCEPT !.pc = "warren_member", !.index = @ + 1]

\* Lines 112-116: a member of the list is looked up; an unknown one is skipped.
WarrenMember(r) ==
    /\ reqs[r].pc = "warren_member"
    /\ LET found == SelectTarget(clawfiles, reqs[r].req.body.members[reqs[r].index])
       IN  IF found = {}
           THEN reqs' = [reqs EXCEPT ![r] = NextMember(reqs[r])]
           ELSE \E member \in found :
                   reqs' = [reqs EXCEPT ![r] =
                       [reqs[r] EXCEPT !.pc = "warren_member_insert",
                                       !.target = <<member>>]]
    /\ UNCHANGED <<call, chat, clock, store, nextId>>

\* Lines 117-119: INSERT INTO warren_members (PRIMARY KEY (warren_id,
\* member_id)); a violation is thrown out of the handler and answered 500.
WarrenMemberInsert(r) ==
    /\ reqs[r].pc = "warren_member_insert"
    /\ LET row == <<reqs[r].id, reqs[r].target[1]>>
       IN  IF row \in warren_members
           THEN /\ reqs' = [reqs EXCEPT ![r] = Respond(reqs[r], 500, "internal_error", 0)]
                /\ UNCHANGED warren_members
           ELSE /\ warren_members' = warren_members \cup {row}
                /\ reqs' = [reqs EXCEPT ![r] = NextMember(reqs[r])]
    /\ UNCHANGED <<call, clock, store, nextId, warrens, warren_messages, communities,
                   community_members>>

\* Lines 132-146: GET /warrens/:id/messages checks membership.
WarrenReadCheck(r) ==
    /\ reqs[r].pc = "handler"
    /\ reqs[r].req.route = "warren_read"
    /\ reqs' = [reqs EXCEPT ![r] =
           IF ~IsMember(reqs[r].req.param, reqs[r].auth[1].publicKey)
           THEN Respond(reqs[r], 403, "forbidden", 0)
           ELSE [reqs[r] EXCEPT !.pc = "warren_select"]]
    /\ UNCHANGED <<call, chat, clock, store, nextId>>

\* Lines 148-177: the messages are read and returned.
WarrenSelect(r) ==
    /\ reqs[r].pc = "warren_select"
    /\ reqs' = [reqs EXCEPT ![r] = Respond(reqs[r], 200, "ok", 0)]
    /\ UNCHANGED <<call, chat, clock, store, nextId>>

\* Lines 181-191: POST /warrens/:id/messages requires content.
WarrenSendBegin(r) ==
    /\ reqs[r].pc = "handler"
    /\ reqs[r].req.route = "warren_send"
    /\ reqs' = [reqs EXCEPT ![r] =
           IF reqs[r].req.body.content = <<>>
           THEN Respond(reqs[r], 400, "bad_request", 0)
           ELSE [reqs[r] EXCEPT !.pc = "warren_check"]]
    /\ UNCHANGED <<call, chat, clock, store, nextId>>

\* Lines 193-200: membership is checked.
WarrenSendCheck(r) ==
    /\ reqs[r].pc = "warren_check"
    /\ reqs' = [reqs EXCEPT ![r] =
           IF ~IsMember(reqs[r].req.param, reqs[r].auth[1].publicKey)
           THEN Respond(reqs[r], 403, "forbidden", 0)
           ELSE [reqs[r] EXCEPT !.pc = "warren_message"]]
    /\ UNCHANGED <<call, chat, clock, store, nextId>>

\* A mutant of WarrenMessage: the author is the creator of the warren.
WarrenMessage_creatorAuthor(r) ==
    /\ reqs[r].pc = "warren_message"
    /\ \E w \in warrens :
          /\ w.id = reqs[r].req.param
          /\ warren_messages' = warren_messages \cup
                 {[id |-> nextId, warren_id |-> reqs[r].req.param,
                   author_id |-> w.creator_id, signature |-> "placeholder"]}
    /\ nextId' = nextId + 1
    /\ reqs' = [reqs EXCEPT ![r].pc = "warren_touch", ![r].id = nextId]
    /\ UNCHANGED <<call, clock, store, warrens, warren_members, communities,
                   community_members>>

\* Lines 202-209: INSERT INTO warren_messages under a fresh id.
WarrenMessage(r) ==
    /\ reqs[r].pc = "warren_message"
    /\ warren_messages' = warren_messages \cup
           {[id |-> nextId, warren_id |-> reqs[r].req.param,
             author_id |-> reqs[r].auth[1].publicKey, signature |-> "placeholder"]}
    /\ nextId' = nextId + 1
    /\ reqs' = [reqs EXCEPT ![r].pc = "warren_touch", ![r].id = nextId]
    /\ UNCHANGED <<call, clock, store, warrens, warren_members, communities,
                   community_members>>

\* Lines 211-222: UPDATE warrens SET updated_at, then 201.
WarrenTouch(r) ==
    /\ reqs[r].pc = "warren_touch"
    /\ reqs' = [reqs EXCEPT ![r] = Respond(reqs[r], 201, "created", reqs[r].id)]
    /\ UNCHANGED <<call, chat, clock, store, nextId>>

(***************************************************************************)
(* handlers/clawfiles.ts  POST /clawfiles/me/rotate, GET /clawfiles/:id    *)
(***************************************************************************)
\* A mutant of RotateHandler: the caller's row is pointed at the new key and
\* nothing else is done.
RotateHandler_pointerOnly(r) ==
    /\ reqs[r].pc = "handler"
    /\ reqs[r].req.route = "rotate"
    /\ clawfiles' = [clawfiles EXCEPT
           ![reqs[r].auth[1].publicKey].rotated_to = <<reqs[r].req.body.new_key>>]
    /\ reqs' = [reqs EXCEPT ![r] = Respond(reqs[r], 501, "not_implemented", 0)]
    /\ UNCHANGED <<call, chat, clock, clawfile_profiles, follows, key_rotations, plaza_messages,
                   ledger_entries, nextId>>

\* A mutant of RotateHandler: the old row is marked rotated before the request fails.
RotateHandler_partial(r) ==
    /\ reqs[r].pc = "handler"
    /\ reqs[r].req.route = "rotate"
    /\ clawfiles' = [clawfiles EXCEPT ![reqs[r].auth[1].publicKey].status = "rotated"]
    /\ reqs' = [reqs EXCEPT ![r] = Respond(reqs[r], 501, "not_implemented", 0)]
    /\ UNCHANGED <<call, chat, clock, clawfile_profiles, follows, key_rotations, plaza_messages,
                   ledger_entries, nextId>>

\* POST /clawfiles/me/rotate: answers 501 and touches nothing.
RotateHandler(r) ==
    /\ reqs[r].pc = "handler"
    /\ reqs[r].req.route = "rotate"
    /\ reqs' = [reqs EXCEPT ![r] = Respond(reqs[r], 501, "not_implemented", 0)]
    /\ UNCHANGED <<call, chat, clock, store, nextId>>

\* GET /clawfiles/:id: the row whose public_key or mention_name is :id, or 404.
GetClawfile(r) ==
    /\ reqs[r].pc = "handler"
    /\ reqs[r].req.route = "clawfile_get"
    /\ LET id == reqs[r].req.param
           clawfile == {pk \in DOMAIN clawfiles :
                           pk = id \/ clawfiles[pk].mention_name = id}
       IN  reqs' = [reqs EXCEPT ![r] =
               IF clawfile = {}
               THEN Respond(reqs[r], 404, "not_found", 0)
               ELSE Respond(reqs[r], 200, "ok", 0)]
    /\ UNCHANGED <<call, chat, clock, store, nextId>>

(***************************************************************************)
(* The environment: the response leaves and the slot takes the next        *)
(* request; the clock moves on.                                            *)
(***************************************************************************)
Release(r) ==
    /\ reqs[r].pc = "done"
    /\ reqs' = [reqs EXCEPT ![r] = IdleSlot]
    /\ UNCHANGED <<call, chat, clock, store, nextId>>

\* An operator's statement on the database, outside the API:
\* UPDATE clawfiles SET status = ? WHERE public_key = ?
SetStatus(pk, status) ==
    /\ pk \in DOMAIN clawfiles
    /\ clawfiles[pk].status # status
    /\ clawfiles' = [clawfiles EXCEPT ![pk].status = status]
    /\ UNCHANGED <<call, chat, clock, clawfile_profiles, follows, key_rotations, plaza_messages,
                   ledger_entries, nextId, reqs>>

NoonMs == MsPerDay \div 2
Instants == {d * MsPerDay + NoonMs : d \in 0..(NumDays - 1)}

Tick(t) ==
    /\ t > clock
    /\ clock' = t
    /\ UNCHANGED <<call, chat, store, nextId, reqs>>

(***************************************************************************)
(* Specifications.                                                         *)
(***************************************************************************)
InitTables ==
    /\ clock = NoonMs
    /\ clawfiles \in SeedStores
    /\ clawfile_profiles = [pk \in DOMAIN clawfiles |-> ProfileRow]
    /\ follows = {}
    /\ key_rotations = {}
    /\ plaza_messages = {}
    /\ ledger_entries = {}
    /\ nextId = 1
    /\ call = NoCall
    /\ NoChat

Step(r) ==
    \/ AuthVerify(r)
    \/ AuthLookup(r)
    \/ PlazaBegin(r)
    \/ PlazaCount(r)
    \/ PlazaParent(r)
    \/ PlazaInsert(r)
    \/ PlazaLedger(r)
    \/ RotateHandler(r)
    \/ GetClawfile(r)
    \/ Release(r)

\* A slot takes a new request while fewer than `cap` posts are stored.
Accepting(r, cap) == reqs[r].pc = "idle" /\ Cardinality(plaza_messages) < cap

\* Honest clients, NumSlots requests in flight at once.
Init ==
    /\ InitTables
    /\ reqs = [r \in Slots |-> IdleSlot]

Next ==
    \/ \E r \in Slots :
          /\ Accepting(r, MaxPosts)
          /\ \E req \in ConcurrentRequests(clock) : AuthHeaders(r, req)
    \/ \E r \in Slots : Step(r)
    \/ \E t \in Instants : Tick(t)

Spec == Init /\ [][Next]_vars

\* One request at a time: only slot 1 is in use.
InitOne ==
    /\ InitTables
    /\ reqs = [r \in Slots |-> IF r = 1 THEN IdleSlot ELSE OffSlot]

\* Any client, with any combination of header values, one request at a time.
NextAuth ==
    \/ \E r \in Slots :
          /\ Accepting(r, MaxAuthPosts)
          /\ \E req \in ProbingRequests(clock) : AuthHeaders(r, req)
    \/ \E r \in Slots : Step(r)
    \/ \E t \in Instants : Tick(t)

SpecAuth == InitOne /\ [][NextAuth]_vars

\* Honest clients, one request at a time.
NextSeq ==
    \/ \E r \in Slots :
          /\ Accepting(r, MaxSeqPosts)
          /\ \E req \in SignedRequests(clock) : AuthHeaders(r, req)
    \/ \E r \in Slots : Step(r)
    \/ \E t \in Instants : Tick(t)

SpecSeq == InitOne /\ [][NextSeq]_vars

\* Honest clients rotating keys and reading clawfiles, NumSlots requests in
\* flight at once.
NextRotate ==
    \/ \E r \in Slots :
          /\ reqs[r].pc = "idle"
          /\ \E req \in RotationRequests(clock) : AuthHeaders(r, req)
    \/ \E r \in Slots :
          \/ AuthVerify(r)
          \/ AuthLookup(r)
          \/ RotateHandler(r)
          \/ GetClawfile(r)
          \/ Release(r)

SpecRotate == Init /\ [][NextRotate]_vars

\* Registrations of kB and kC under the mention names of kA and kC, and one
\* registration each with a malformed name, a short name and no proof.
RegisterRequests ==
    {Request("register", NoParam, <<>>, <<>>, <<>>, b) :
        b \in {RegisterBody(<<pk>>, <<m>>, <<"name">>, <<SomeProof>>) :
                  pk \in {pkB, pkC}, m \in {MentionName(pkA), MentionName(pkC)}}
              \cup {RegisterBody(<<pkC>>, <<BadCharMention>>, <<"name">>, <<SomeProof>>),
                    RegisterBody(<<pkC>>, <<ShortMention>>, <<"name">>, <<SomeProof>>),
                    RegisterBody(<<pkC>>, <<MentionName(pkC)>>, <<"name">>, <<>>)}}

\* Reads without auth headers of the clawfiles of kB and kC.
ReadRequests ==
    {Request("clawfile_get", p, <<>>, <<>>, <<>>, EmptyBody) : p \in {MentionName(pkC)}}

\* Registrations and reads, NumSlots requests in flight at once.
NextRegister ==
    \/ \E r \in Slots : \E req \in RegisterRequests : RegisterBegin(r, req)
    \/ \E r \in Slots : \E req \in ReadRequests : AuthHeaders(r, req)
    \/ \E r \in Slots :
          \/ RegisterSelect(r)
          \/ RegisterClawfile(r)
          \/ RegisterProfile(r)
          \/ GetClawfile(r)
          \/ Release(r)

\* The stores whose identities are all active and of tier 0.
InitRegister ==
    /\ Init
    /\ \A pk \in DOMAIN clawfiles :
          clawfiles[pk].status = "active" /\ clawfiles[pk].verification_tier = 0

SpecRegister == InitRegister /\ [][NextRegister]_vars

\* Requests by kA, several in flight at once, while an operator suspends,
\* archives or reinstates kA.
StatusRequests(now) == {req \in RotationRequests(now) : req.publicKey = <<pkA>>}

NextStatus ==
    \/ \E r \in Slots :
          /\ reqs[r].pc = "idle"
          /\ \E req \in StatusRequests(clock) : AuthHeaders(r, req)
    \/ \E r \in Slots :
          \/ AuthVerify(r)
          \/ AuthLookup(r)
          \/ RotateHandler(r)
          \/ GetClawfile(r)
          \/ Release(r)
    \/ \E status \in Statuses : SetStatus(pkA, status)

SpecStatus == Init /\ [][NextStatus]_vars

\* A client that sends a request, waits for the answer and then sends the
\* identical request again: slot r + 1 takes the request slot r has answered,
\* headers and body unchanged, and no slot is cleared.
NextReplay ==
    \/ /\ reqs[1].pc = "idle"
       /\ \E req \in SignedRequests(clock) : AuthHeaders(1, req)
    \/ \E r \in Slots \ {1} :
          /\ reqs[r].pc = "idle"
          /\ reqs[r - 1].pc = "done"
          /\ AuthHeaders(r, reqs[r - 1].req)
    \/ \E r \in Slots :
          \/ AuthVerify(r)
          \/ AuthLookup(r)
          \/ PlazaBegin(r)
          \/ PlazaCount(r)
          \/ PlazaParent(r)
          \/ PlazaInsert(r)
          \/ PlazaLedger(r)
          \/ RotateHandler(r)
          \/ GetClawfile(r)
    \/ \E t \in Instants : Tick(t)

SpecReplay == Init /\ [][NextReplay]_vars

\* Stores with a rotation on record: kA rotated to kB, the two rows pointing
\* at each other; and stores without one, kA in any status beside an active kB.
RotatedRow(pk, tier, successor) ==
    [ClawfileRow(pk, "rotated", tier) EXCEPT !.rotated_to = <<successor>>]
SuccessorRow(pk, tier, predecessor) ==
    [ClawfileRow(pk, "active", tier) EXCEPT !.rotated_from = <<predecessor>>]
LineageStores ==
    {[pk \in {pkA, pkB} |->
        IF pk = pkA THEN RotatedRow(pkA, t, pkB) ELSE SuccessorRow(pkB, t, pkA)] :
            t \in {1, 3}}
    \cup {[pk \in {pkA, pkB} |->
            IF pk = pkA THEN ClawfileRow(pkA, st, 2) ELSE ClawfileRow(pkB, "active", 0)] :
                st \in Statuses}

\* Route, parameter and body of the requests a client sends to every route
\* behind requireAuth.
ApiRoutes(old_key) ==
    {<<"plaza_post", NoParam, PostBody(5, <<>>)>>,
     <<"rotate", NoParam,
       RotateBody(pkC, signMessage(old_key[1], RotationStatement(old_key, pkC)))>>,
     <<"patch_me", NoParam, PatchBody(<<"renamed">>, <<>>, <<0>>)>>,
     <<"patch_me", NoParam, PatchBody(<<"">>, <<"bio">>, <<>>)>>,
     <<"patch_me", NoParam, PatchBody(<<>>, <<>>, <<3>>)>>,
     <<"follow", NoParam, FollowBody(<<pkA>>)>>,
     <<"follow", NoParam, FollowBody(<<MentionName(pkB)>>)>>,
     <<"follow", NoParam, FollowBody(<<pkC>>)>>,
     <<"follow", NoParam, FollowBody(<<>>)>>,
     <<"unfollow", pkA, EmptyBody>>,
     <<"unfollow", MentionName(pkB), EmptyBody>>,
     <<"unfollow", pkC, EmptyBody>>}

ApiRequests(now) ==
    UNION {
        {LET base == Request(rc[1], rc[2], <<pk>>, <<>>, <<IsoTimestamp(now)>>, rc[3])
         IN  [base EXCEPT !.signature = <<signMessage(pk[1], RequestCanonical(base))>>] :
            rc \in ApiRoutes(pk)} :
        pk \in {pkA, pkB}}

\* Registrations of kA, kB and kC under the mention name of kC, with a body
\* that also names a tier, a status and a predecessor.
ApiRegistrations ==
    {Request("register", NoParam, <<>>, <<>>, <<>>,
             [RegisterBody(<<pk>>, <<MentionName(pkC)>>, <<"name">>, <<SomeProof>>)
                 EXCEPT !.verification_tier = <<3>>, !.status = <<"archived">>,
                        !.rotated_from = <<pkA>>]) :
        pk \in {pkA, pkB, pkC}}

\* A slot takes a new request while the posts and the follower counts are
\* below their caps.
ApiAccepting(r) ==
    /\ Accepting(r, MaxAuthPosts)
    /\ \A pk \in DOMAIN clawfile_profiles :
          clawfile_profiles[pk].follower_count < MaxFollows

InitApi ==
    /\ clock = NoonMs
    /\ clawfiles \in LineageStores
    /\ clawfile_profiles = [pk \in DOMAIN clawfiles |-> ProfileRow]
    /\ follows = {}
    /\ key_rotations = {}
    /\ plaza_messages = {}
    /\ ledger_entries = {}
    /\ nextId = 1
    /\ call = NoCall
    /\ NoChat
    /\ reqs = [r \in Slots |-> IF r = 1 THEN IdleSlot ELSE OffSlot]

\* Every operation of the API, one request at a time.
NextApi ==
    \/ \E r \in Slots :
          /\ ApiAccepting(r)
          /\ \/ \E req \in ApiRequests(clock) : AuthHeaders(r, req)
             \/ \E req \in ApiRegistrations : RegisterBegin(r, req)
    \/ \E r \in Slots :
          \/ AuthVerify(r)
          \/ AuthLookup(r)
          \/ PlazaBegin(r)
          \/ PlazaCount(r)
          \/ PlazaInsert(r)
          \/ PlazaLedger(r)
          \/ RegisterSelect(r)
          \/ RegisterClawfile(r)
          \/ RegisterProfile(r)
          \/ PatchBegin(r)
          \/ PatchClawfile(r)
          \/ PatchProfile(r)
          \/ FollowBegin(r)
          \/ FollowTarget(r)
          \/ FollowInsert(r)
          \/ UnfollowTarget(r)
          \/ UnfollowDelete(r)
          \/ RotateHandler(r)
          \/ Release(r)

SpecApi == InitApi /\ [][NextApi]_vars

\* Follow and unfollow requests by kA and kB, NumSlots in flight at once.
FollowRoutes ==
    {<<"follow", NoParam, FollowBody(<<pkA>>)>>,
     <<"follow", NoParam, FollowBody(<<MentionName(pkB)>>)>>,
     <<"follow", NoParam, FollowBody(<<>>)>>,
     <<"unfollow", pkA, EmptyBody>>,
     <<"unfollow", MentionName(pkB), EmptyBody>>}

FollowRequests(now) ==
    UNION {
        {LET base == Request(rc[1], rc[2], <<pk>>, <<>>, <<IsoTimestamp(now)>>, rc[3])
         IN  [base EXCEPT !.signature = <<signMessage(pk[1], RequestCanonical(base))>>] :
            rc \in FollowRoutes} :
        pk \in {pkA, pkB}}

NextFollow ==
    \/ \E r \in Slots :
          /\ ApiAccepting(r)
          /\ \E req \in FollowRequests(clock) : AuthHeaders(r, req)
    \/ \E r \in Slots :
          \/ AuthVerify(r)
          \/ AuthLookup(r)
          \/ FollowBegin(r)
          \/ FollowTarget(r)
          \/ FollowInsert(r)
          \/ UnfollowTarget(r)
          \/ UnfollowDelete(r)
          \/ Release(r)

SpecFollow == InitRegister /\ [][NextFollow]_vars

\* Communities created, joined and left by kA and kB, one request at a time.
CommunityRoutes ==
    {<<"community_create", NoParam, CommunityBody(<<"name">>, <<"den">>)>>,
     <<"community_create", NoParam, CommunityBody(<<"name">>, <<BadSlug>>)>>,
     <<"community_create", NoParam, CommunityBody(<<>>, <<"den">>)>>,
     <<"community_join", "den", EmptyBody>>,
     <<"community_join", "nest", EmptyBody>>,
     <<"community_leave", "den", EmptyBody>>}

CommunityRequests(now) ==
    UNION {
        {LET base == Request(rc[1], rc[2], <<pk>>, <<>>, <<IsoTimestamp(now)>>, rc[3])
         IN  [base EXCEPT !.signature = <<signMessage(pk[1], RequestCanonical(base))>>] :
            rc \in CommunityRoutes} :
        pk \in {pkA, pkB}}

\* A slot takes a new request while every member_count is above its floor.
CommunityAccepting(r) ==
    /\ reqs[r].pc = "idle"
    /\ \A id \in DOMAIN communities : communities[id].member_count > 0 - MaxLeaves

NextCommunity ==
    \/ \E r \in Slots :
          /\ CommunityAccepting(r)
          /\ \E req \in CommunityRequests(clock) : AuthHeaders(r, req)
    \/ \E r \in Slots :
          \/ AuthVerify(r)
          \/ AuthLookup(r)
          \/ CommunityBegin(r)
          \/ CommunitySelect(r)
          \/ CommunityInsert(r)
          \/ CommunityOwner(r)
          \/ MembershipSelect(r)
          \/ JoinInsert(r)
          \/ JoinCount(r)
          \/ LeaveDelete(r)
          \/ LeaveCount(r)
          \/ Release(r)

SpecCommunity == InitOne /\ [][NextCommunity]_vars

\* Warrens created by kA and kB, NumSlots requests in flight at once: a DM
\* with kB by key, with kA by mention name, with the unregistered kC, with two
\* members, a group of kA and kB, a warren of an unknown type and one
\* without members.
DmRoutes ==
    {<<"warren_create", NoParam, WarrenBody(<<"dm">>, <<pkB>>)>>,
     <<"warren_create", NoParam, WarrenBody(<<"dm">>, <<MentionName(pkA)>>)>>,
     <<"warren_create", NoParam, WarrenBody(<<"dm">>, <<pkC>>)>>,
     <<"warren_create", NoParam, WarrenBody(<<"dm">>, <<pkA, pkB>>)>>,
     <<"warren_create", NoParam, WarrenBody(<<"group">>, <<pkA, pkB>>)>>,
     <<"warren_create", NoParam, WarrenBody(<<"room">>, <<pkB>>)>>,
     <<"warren_create", NoParam, WarrenBody(<<"group">>, <<>>)>>}

DmRequests(now) ==
    UNION {
        {LET base == Request(rc[1], rc[2], <<pk>>, <<>>, <<IsoTimestamp(now)>>, rc[3])
         IN  [base EXCEPT !.signature = <<signMessage(pk[1], RequestCanonical(base))>>] :
            rc \in DmRoutes} :
        pk \in {pkA, pkB}}

\* A slot takes a new request while fewer than MaxWarrens warrens are stored.
WarrenAccepting(r) == reqs[r].pc = "idle" /\ Cardinality(warrens) < MaxWarrens

WarrenCreateStep(r) ==
    \/ WarrenBegin(r)
    \/ WarrenTarget(r)
    \/ WarrenExisting(r)
    \/ WarrenInsert(r)
    \/ WarrenCreator(r)
    \/ WarrenMember(r)
    \/ WarrenMemberInsert(r)

NextDm ==
    \/ \E r \in Slots :
          /\ WarrenAccepting(r)
          /\ \E req \in DmRequests(clock) : AuthHeaders(r, req)
    \/ \E r \in Slots :
          \/ AuthVerify(r)
          \/ AuthLookup(r)
          \/ WarrenCreateStep(r)
          \/ Release(r)

SpecDm == InitRegister /\ [][NextDm]_vars

\* Plaza posts and replies, warrens and warren messages, one request at a
\* time: a DM with kB, a group of kA and kB, messages with and without content sent to and read
\* from the warrens numbered 1 and 2.
ChatRoutes ==
    {<<"plaza_post", NoParam, PostBody(5, <<>>)>>,
     <<"plaza_post", NoParam, PostBody(5, <<1>>)>>,
     <<"warren_create", NoParam, WarrenBody(<<"dm">>, <<pkB>>)>>,
     <<"warren_create", NoParam, WarrenBody(<<"group">>, <<pkA, pkB>>)>>}
    \cup UNION {{<<"warren_send", id, MessageBody(<<"hi">>)>>,
                 <<"warren_send", id, MessageBody(<<>>)>>,
                 <<"warren_read", id, EmptyBody>>} : id \in 1..2}

\* A route is open while the table it writes to is below its bound.
RouteOpen(route) ==
    CASE route = "plaza_post" -> Cardinality(plaza_messages) < MaxAuthPosts
      [] route = "warren_create" -> Cardinality(warrens) < MaxWarrens
      [] route = "warren_send" -> Cardinality(warren_messages) < MaxMessages
      [] OTHER -> TRUE

\* Every route under the key of kA, kB or the unregistered kC, signed with the
\* key it names or with the key of kC.
ChatRequests(now) ==
    UNION {
        {LET base == Request(rc[1], rc[2], <<ps[1]>>, <<>>, <<IsoTimestamp(now)>>, rc[3])
         IN  [base EXCEPT !.signature = <<signMessage(ps[2], RequestCanonical(base))>>] :
            rc \in {c \in ChatRoutes : RouteOpen(c[1])}} :
        ps \in {<<pk, signer>> \in {pkA, pkB, pkC} \X {"kA", "kB", "kC"} :
                    signer \in {pk[1], "kC"}}}

NextChat ==
    \/ \E r \in Slots :
          /\ reqs[r].pc = "idle"
          /\ \E req \in ChatRequests(clock) : AuthHeaders(r, req)
    \/ \E r \in Slots :
          \/ AuthVerify(r)
          \/ AuthLookup(r)
          \/ PlazaBegin(r)
          \/ PlazaCount(r)
          \/ PlazaParent(r)
          \/ PlazaInsert(r)
          \/ PlazaLedger(r)
          \/ WarrenCreateStep(r)
          \/ WarrenReadCheck(r)
          \/ WarrenSelect(r)
          \/ WarrenSendBegin(r)
          \/ WarrenSendCheck(r)
          \/ WarrenMessage(r)
          \/ WarrenTouch(r)
          \/ Release(r)

SpecChat == InitOne /\ [][NextChat]_vars

\* Pairs of requests that differ in one respect.  The first request names a
\* well-formed or a malformed key, carries or lacks a query string, has a
\* timestamp inside or outside the accepted skew, and a signature that is the
\* key's own, undecodable, too short, or by another key.
TwinKeys ==
    {pkA, pkRsa, <<"kA">>, <<"!!", "ed25519">>, <<"short", "ed25519">>,
     <<"kA", "ed25519", "extra">>}
TwinQueries == {NoQuery, <<"?page=2">>}
TwinRoutes ==
    {<<"rotate", NoParam, RotateBody(pkC, signMessage("kA", RotationStatement(pkA, pkC)))>>,
     <<"clawfile_get", pkA, EmptyBody>>}

FirstRequests(now) ==
    UNION {
        LET base == [Request(rc[1], rc[2], <<pk>>, <<>>, <<IsoTimestamp(now + o)>>, rc[3])
                        EXCEPT !.query = q]
        IN  {[base EXCEPT !.signature = <<sg>>] :
                sg \in {signMessage("kA", RequestCanonical(base)),
                        signMessage("kB", RequestCanonical(base)),
                        NotBase64, ShortSignature}} :
        rc \in TwinRoutes, pk \in TwinKeys, q \in TwinQueries,
        o \in {0, (MaxSkewSeconds + 1) * MsPerSecond}}

\* The second request of a pair: the first with its query string added or
\* removed, or the first with the well-formed key of kA and a well-formed
\* signature that is not kA's signature of this request.
SecondRequests(first) ==
    {[first EXCEPT !.query = q] : q \in TwinQueries \ {first.query}}
    \cup {[first EXCEPT !.publicKey = <<pkA>>, !.signature = <<sg>>] :
            sg \in {signMessage("kB", RequestCanonical(first)),
                    signMessage("kA", <<"other message">>)}}

NextTwin ==
    \/ /\ reqs[1].pc = "idle"
       /\ \E req \in FirstRequests(clock) : AuthHeaders(1, req)
    \/ /\ reqs[1].pc = "done"
       /\ reqs[2].pc = "idle"
       /\ \E req \in SecondRequests(reqs[1].req) : AuthHeaders(2, req)
    \/ \E r \in Slots :
          \/ AuthVerify(r)
          \/ AuthLookup(r)
          \/ RotateHandler(r)
          \/ GetClawfile(r)

SpecTwin == Init /\ [][NextTwin]_vars

(***************************************************************************)
(* Calls of the functions of utils/crypto.ts.                              *)
(***************************************************************************)
\* Public-key strings, split at ':': well formed, without a tag, with another
\* tag, with segments after the tag, with a payload that is not base64, with
\* a payload of the wrong length, and the empty string.
KeyStrings ==
    {pkA, pkB, <<"kA">>, pkRsa, <<"kA", "ed25519", "extra">>, <<"kA", "ed25519", "">>,
     <<"!!", "ed25519">>, <<"short", "ed25519">>, <<"", "ed25519">>, <<"">>}

Messages == {<<"">>, <<"message">>, <<"other message">>}

SignatureStrings ==
    {signMessage(k, m) : k \in {"kA", "kB"}, m \in Messages}
    \cup {NotBase64, ShortSignature}

CanonicalInputs ==
    {[method |-> m, path |-> p, timestamp |-> IsoTimestamp(NoonMs), body |-> b] :
        m \in {"GET", "POST"},
        p \in {<<"/api/v1/plaza">>, <<"/api/v1/clawfiles/", pkA>>},
        b \in {EmptyBody, PostBody(5, <<>>)}}

NoResult == <<>>

\* A call of verifySignature with its three arguments.
VerifyCall(publicKey, message, signature, throws) ==
    [fn |-> "verifySignature", pc |-> "verify", publicKey |-> publicKey,
     message |-> message, signature |-> signature, throws |-> throws,
     privateKey |-> "", canonical |-> <<>>, result |-> NoResult]

\* generateKeyPair, signMessage and verifySignature called in a row on `message`.
RoundTripCall(message, throws) ==
    [VerifyCall(<<>>, message, NotBase64, throws) EXCEPT
        !.fn = "roundTrip", !.pc = "generate"]

\* A call of buildCanonicalString.
CanonicalCall(input) ==
    [VerifyCall(<<>>, <<>>, NotBase64, TRUE) EXCEPT
        !.fn = "buildCanonicalString", !.pc = "canonical", !.canonical = <<input>>]

CryptoCalls ==
    {VerifyCall(pk, m, sg, th) :
        pk \in KeyStrings, m \in Messages, sg \in SignatureStrings, th \in BOOLEAN}
    \cup {RoundTripCall(m, th) : m \in Messages, th \in BOOLEAN}
    \cup {CanonicalCall(input) : input \in CanonicalInputs}

\* const pair = await generateKeyPair()
CallGenerateKeyPair ==
    /\ call.pc = "generate"
    /\ \E k \in KeyPayloads :
          LET pair == generateKeyPair(k)
          IN  call' = [call EXCEPT !.pc = "sign", !.publicKey = pair.publicKey,
                                   !.privateKey = pair.privateKey]
    /\ UNCHANGED <<clock, store, chat, nextId, reqs>>

\* const signature = await signMessage(pair.privateKey, message)
CallSignMessage ==
    /\ call.pc = "sign"
    /\ call' = [call EXCEPT !.pc = "verify",
                            !.signature = signMessage(call.privateKey, call.message)]
    /\ UNCHANGED <<clock, store, chat, nextId, reqs>>

\* await verifySignature(publicKey, message, signature)
CallVerifySignature ==
    /\ call.pc = "verify"
    /\ call' = [call EXCEPT
           !.pc = "returned",
           !.result = <<verifySignatureCall(call.publicKey, call.message,
                                            call.signature, call.throws)>>]
    /\ UNCHANGED <<clock, store, chat, nextId, reqs>>

\* buildCanonicalString(method, path, timestamp, body)
CallBuildCanonicalString ==
    /\ call.pc = "canonical"
    /\ LET input == call.canonical[1]
       IN  call' = [call EXCEPT
               !.pc = "returned",
               !.result = <<Returned(buildCanonicalString(input.method, input.path,
                                                          input.timestamp, input.body))>>]
    /\ UNCHANGED <<clock, store, chat, nextId, reqs>>

InitCrypto ==
    /\ clock = NoonMs
    /\ clawfiles = [pk \in {} |-> ClawfileRow(pkA, "active", 0)]
    /\ clawfile_profiles = [pk \in {} |-> ProfileRow]
    /\ follows = {}
    /\ key_rotations = {}
    /\ plaza_messages = {}
    /\ ledger_entries = {}
    /\ nextId = 1
    /\ reqs = [r \in Slots |-> OffSlot]
    /\ NoChat
    /\ call \in CryptoCalls

NextCrypto ==
    \/ CallGenerateKeyPair
    \/ CallSignMessage
    \/ CallVerifySignature
    \/ CallBuildCanonicalString

SpecCrypto == InitCrypto /\ [][NextCrypto]_vars

(***************************************************************************)
(* Properties.                                                             *)
(***************************************************************************)
InFlight(r) == reqs[r].pc \notin {"idle", "off"}

AuthErrorCodes ==
    {"missing_auth", "timestamp_skew", "invalid_signature", "unknown_identity",
     "inactive_identity"}

\* C1: authMiddleware attaches an auth context and starts the handler only when
\* the row it reads for X-Public-Key exists and has status active; when there is
\* no row it answers 401 unknown_identity, and when the row's status is rotated,
\* suspended or archived it answers 401 inactive_identity, whatever the request
\* and the contents of the store.
C1_OnlyActiveAuthenticates ==
    [][\A r \in Slots :
        (reqs[r].pc = "lookup" /\ reqs'[r].pc # "lookup") =>
            LET pk == reqs[r].req.publicKey[1]
                t == reqs'[r]
            IN  /\ pk \notin DOMAIN clawfiles =>
                    /\ t.pc = "done" /\ t.resp = Response(401, "unknown_identity", 0)
                    /\ t.ran = 0 /\ t.auth = <<>>
                /\ (pk \in DOMAIN clawfiles /\ clawfiles[pk].status # "active") =>
                    /\ t.pc = "done" /\ t.resp = Response(401, "inactive_identity", 0)
                    /\ t.ran = 0 /\ t.auth = <<>>
                /\ (pk \in DOMAIN clawfiles /\ clawfiles[pk].status = "active") =>
                    /\ t.pc = "handler" /\ t.resp = NoResponse
                    /\ t.ran = 1 /\ t.auth # <<>> /\ t.auth[1].publicKey = pk
    ]_vars

\* C1 witness: a correctly signed request by a key whose row is rotated has been
\* answered 401 inactive_identity.
C1_Witness ==
    \E r \in Slots :
        /\ reqs[r].pc = "done"
        /\ reqs[r].resp = Response(401, "inactive_identity", 0)
        /\ clawfiles[reqs[r].req.publicKey[1]].status = "rotated"

\* C2: for any interleaving of POST /plaza requests of one tier-0 identity, at
\* most one plaza message of that identity is stored per UTC calendar day.
C2_OnePostPerDay ==
    \A pk \in DOMAIN clawfiles :
        clawfiles[pk].verification_tier = 0 =>
            \A d \in 0..NumDays : CountPosts(plaza_messages, pk, d) <= 1

\* The posts of `author` dated `day`, the one with id `id` left out.
OtherPosts(author, day, id) ==
    {m \in plaza_messages : m.author_id = author /\ DateOf(m.created_at) = day /\ m.id # id}

\* C3: with one request at a time, a POST /plaza request with valid content by
\* a tier-0 identity is answered 429 rate_limited exactly when a post of that
\* identity dated the current UTC day is already stored; otherwise it is
\* accepted with 201 and its post is stored (or, for a reply, answered 404 when
\* the parent does not exist).  So the first request of a day is accepted, every
\* further one that day is rejected, and the first of the next day is accepted.
C3_FirstPostOfDayOnly ==
    \A r \in Slots :
        LET s == reqs[r]
        IN  (/\ s.pc = "done" /\ s.req.route = "plaza_post" /\ s.ran = 1
             /\ s.auth[1].identity.verification_tier = 0
             /\ ~ContentRejected(s.req.body)) =>
                LET status == s.resp[1].status
                    before == OtherPosts(s.auth[1].publicKey, s.today, s.resp[1].id)
                IN  /\ status = 429 <=> before # {}
                    /\ status = 429 => s.resp[1].code = "rate_limited"
                    /\ status # 429 =>
                        \/ /\ status = 201
                           /\ \E m \in plaza_messages :
                                m.id = s.resp[1].id /\ m.author_id = s.auth[1].publicKey
                        \/ /\ status = 404
                           /\ s.req.body.reply_to # <<>>

\* C3 witness: kA, tier 0, has a post dated day 0 and a post dated day 1, and
\* its further request on day 1 has been answered 429.
C3_Witness ==
    \E r \in Slots :
        /\ reqs[r].pc = "done"
        /\ reqs[r].req.route = "plaza_post"
        /\ reqs[r].resp = Response(429, "rate_limited", 0)
        /\ reqs[r].auth[1].publicKey = pkA
        /\ reqs[r].today = 1
        /\ CountPosts(plaza_messages, pkA, 0) = 1
        /\ CountPosts(plaza_messages, pkA, 1) = 1

\* The rotation request in slot r was made by an authenticated active identity,
\* carries a proof that verifies against the old key, and names a new key that
\* no other identity holds.
ValidRotation(r) ==
    LET s == reqs[r]
        old == s.req.publicKey[1]
        new == s.req.body.new_key
    IN  /\ s.req.route = "rotate"
        /\ s.ran = 1
        /\ verifySignature(old, RotationStatement(old, new), s.req.body.rotation_signature)
        /\ new \in DOMAIN clawfiles => clawfiles[new].rotated_from = <<old>>

\* The store shows the rotation old -> new.
Rotated(old, new) ==
    /\ old \in DOMAIN clawfiles /\ new \in DOMAIN clawfiles
    /\ clawfiles[old].status = "rotated"
    /\ clawfiles[old].rotated_to = <<new>>
    /\ clawfiles[new].status = "active"
    /\ clawfiles[new].rotated_from = <<old>>
    /\ \E k \in key_rotations : k.old_key = old /\ k.new_key = new

\* C4: a rotation request by an active old key, with a proof that verifies
\* against the old key and a new key that is not yet registered, succeeds, and
\* afterwards the old row is rotated and points to the new key, the new row is
\* active and points back, and a key_rotations row has been appended.
C4_RotationSucceeds ==
    \A r \in Slots :
        (reqs[r].pc = "done" /\ ValidRotation(r)) =>
            /\ reqs[r].resp[1].status = 200
            /\ Rotated(reqs[r].req.publicKey[1], reqs[r].req.body.new_key)

\* C5: when the same valid rotation request has been issued twice, exactly one
\* of the two has succeeded.
C5_ExactlyOneRotationSucceeds ==
    \A r1, r2 \in Slots :
        (/\ r1 # r2
         /\ reqs[r1].pc = "done" /\ reqs[r2].pc = "done"
         /\ reqs[r1].req = reqs[r2].req
         /\ ValidRotation(r1) /\ ValidRotation(r2)) =>
            Cardinality({r \in {r1, r2} : reqs[r].resp[1].status = 200}) = 1

\* C6: a rotation request changes the store, if at all, in the one step in which
\* it succeeds: a rotation request that fails leaves every table as it was, and
\* no step of it leaves a partial rotation behind.
C6_FailedRotationChangesNothing ==
    [][\A r \in Slots :
        (reqs'[r] # reqs[r] /\ (reqs[r].req.route = "rotate" \/ reqs'[r].req.route = "rotate")) =>
            \/ UNCHANGED store
            \/ reqs'[r].pc = "done" /\ reqs'[r].resp[1].status = 200
    ]_vars

\* C6 witness: a rotation request of an authenticated identity has failed.
C6_Witness ==
    \E r \in Slots :
        /\ reqs[r].pc = "done"
        /\ reqs[r].req.route = "rotate"
        /\ reqs[r].ran = 1
        /\ reqs[r].resp[1].status # 200

\* Server seconds minus request seconds, for a request with a parsable timestamp.
SkewSeconds(s) == s.now.v - (s.req.timestamp[1].ms \div 1000)

Checked(r) ==
    /\ InFlight(r)
    /\ ~HeadersMissing(reqs[r].req)

\* C7: a request that carries the three headers and a parsable X-Timestamp is
\* answered 401 timestamp_skew exactly when server time and timestamp, in whole
\* seconds, differ by more than 60: a difference of 60 passes and one of 61
\* fails, whichever of the two clocks is ahead.
C7_SkewBoundary ==
    \A r \in Slots :
        (Checked(r) /\ reqs[r].req.timestamp[1].iso) =>
            LET d == SkewSeconds(reqs[r])
                rejected == reqs[r].resp = Response(401, "timestamp_skew", 0)
            IN  /\ rejected <=> (d > 60 \/ d < 0 - 60)
                /\ d \in {60, 0 - 60} => ~rejected
                /\ d \in {61, 0 - 61} => rejected

\* C7 witness: a request whose timestamp is exactly 60 s ahead of the server
\* clock has passed the freshness check.
C7_Witness ==
    \E r \in Slots :
        /\ Checked(r) /\ reqs[r].req.timestamp[1].iso
        /\ SkewSeconds(reqs[r]) = 0 - 60
        /\ reqs[r].pc = "verify"

\* C7 as stated, on the instants themselves: a request that carries the three
\* headers and a parsable X-Timestamp is answered 401 timestamp_skew exactly
\* when the server's clock and the timestamp are more than 60 s apart.
C7_SkewExact ==
    [][\A r \in Slots :
        (/\ reqs[r].pc = "idle"
         /\ reqs'[r].pc # "idle"
         /\ ~HeadersMissing(reqs'[r].req)
         /\ reqs'[r].req.timestamp[1].iso) =>
            LET d == clock - reqs'[r].req.timestamp[1].ms
                apart == IF d < 0 THEN 0 - d ELSE d
            IN  (reqs'[r].resp = Response(401, "timestamp_skew", 0))
                    <=> (apart > MaxSkewSeconds * MsPerSecond)]_vars

\* C8: a request whose X-Timestamp is present but cannot be parsed is rejected
\* by authMiddleware: its handler never runs.
C8_UnparsableTimestampRejected ==
    \A r \in Slots :
        (Checked(r) /\ ~reqs[r].req.timestamp[1].iso) => reqs[r].ran = 0

\* C9: on an optional-auth route a request reaches the handler without an auth
\* context only when all three auth headers are absent.
C9_OptionalAuthAllOrNothing ==
    \A r \in Slots :
        LET s == reqs[r]
        IN  (InFlight(r) /\ ~RouteRequired(s.req.route) /\ s.ran >= 1 /\ s.auth = <<>>) =>
                (s.req.publicKey = <<>> /\ s.req.signature = <<>> /\ s.req.timestamp = <<>>)

\* C10: on a required-auth route a request has one of two outcomes.  Either it
\* is answered 401 with one of the five auth error codes, its handler has not
\* run and no step of it has changed the store; or its handler is started
\* exactly once, with an auth context whose publicKey is the X-Public-Key header
\* and whose identity is the stored row of that key.
C10_RequiredAuthOutcomes ==
    /\ [](\A r \in Slots :
            LET s == reqs[r]
            IN  (InFlight(r) /\ RouteRequired(s.req.route)) =>
                    /\ s.ran \in {0, 1}
                    /\ (s.pc = "done" /\ s.ran = 0) =>
                        /\ s.resp[1].status = 401
                        /\ s.resp[1].code \in AuthErrorCodes
                        /\ s.auth = <<>>
                    /\ (s.pc = "done" /\ s.resp[1].status = 401) => s.ran = 0
                    /\ s.ran = 1 =>
                        /\ s.auth # <<>>
                        /\ <<s.auth[1].publicKey>> = s.req.publicKey
                    /\ s.ran = 0 => s.pc \in {"verify", "lookup", "done"})
    /\ [][\A r \in Slots :
            /\ (reqs'[r] # reqs[r] /\ RouteRequired(reqs'[r].req.route) /\ reqs'[r].ran = 0) =>
                    UNCHANGED store
            /\ (RouteRequired(reqs'[r].req.route) /\ reqs[r].ran = 0 /\ reqs'[r].ran # 0) =>
                    /\ reqs'[r].ran = 1
                    /\ reqs'[r].auth =
                         <<[publicKey |-> reqs[r].req.publicKey[1],
                            identity |-> SelectIdentity(clawfiles, reqs[r].req.publicKey[1])[1]]>>
       ]_vars

\* C10 witness: a required-auth request has been answered by its handler, which
\* ran once with the auth context of the request's key.
C10_Witness ==
    \E r \in Slots :
        /\ reqs[r].pc = "done"
        /\ RouteRequired(reqs[r].req.route)
        /\ reqs[r].ran = 1
        /\ reqs[r].auth[1].publicKey = pkA
        /\ reqs[r].resp[1].status = 201


(***************************************************************************)
(* The checks of the middleware, stated on the request and the store.      *)
(***************************************************************************)
\* The message the protocol has the client sign for this request.
OwnMessage(req) ==
    <<RouteMethod(req.route), RoutePath(req.route, req.param), req.timestamp[1],
      <<"sha256", req.body>>>>

\* X-Timestamp is an instant more than 60 whole seconds from the server's clock.
SkewExcessive(s) ==
    /\ s.req.timestamp[1].iso
    /\ (SkewSeconds(s) > MaxSkewSeconds \/ SkewSeconds(s) < 0 - MaxSkewSeconds)

\* X-Signature is the signature, by the key X-Public-Key names, of this request.
SignatureGood(s) ==
    /\ s.req.publicKey[1][2] = "ed25519"
    /\ s.req.signature[1] = signMessage(s.req.publicKey[1][1], OwnMessage(s.req))

IdentityUnknown(s) == s.req.publicKey[1] \notin DOMAIN clawfiles

IdentityInactive(s) ==
    /\ s.req.publicKey[1] \in DOMAIN clawfiles
    /\ clawfiles[s.req.publicKey[1]].status # "active"

\* C11: authMiddleware checks, in this order, that the three headers are there,
\* that the timestamp is fresh, that the signature verifies over the canonical
\* string, and that the identity exists and is active; the 401 it answers
\* carries the code of the first check that fails in this order, so a request
\* with an invalid signature and an excessive skew is answered timestamp_skew.
C11_FirstFailingCheck ==
    \A r \in Slots :
        Checked(r) =>
            LET s == reqs[r]
            IN  /\ SkewExcessive(s) => s.resp = Response(401, "timestamp_skew", 0)
                /\ (~SkewExcessive(s) /\ ~SignatureGood(s)) =>
                       \/ s.pc = "verify"
                       \/ s.resp = Response(401, "invalid_signature", 0)
                /\ (~SkewExcessive(s) /\ SignatureGood(s) /\ IdentityUnknown(s)) =>
                       \/ s.pc \in {"verify", "lookup"}
                       \/ s.resp = Response(401, "unknown_identity", 0)
                /\ (~SkewExcessive(s) /\ SignatureGood(s) /\ IdentityInactive(s)) =>
                       \/ s.pc \in {"verify", "lookup"}
                       \/ s.resp = Response(401, "inactive_identity", 0)

\* C11 witness: a request whose signature is invalid and whose timestamp is
\* 61 s old has been answered timestamp_skew.
C11_Witness ==
    \E r \in Slots :
        /\ Checked(r)
        /\ SkewExcessive(reqs[r]) /\ ~SignatureGood(reqs[r])
        /\ reqs[r].resp = Response(401, "timestamp_skew", 0)

\* C11 as stated: the signature is verified before the timestamp is checked, so
\* an answered request with an invalid signature carries invalid_signature, and
\* timestamp_skew is answered only when the signature is valid.
C11_SignatureCheckedFirst ==
    \A r \in Slots :
        (Checked(r) /\ reqs[r].resp # NoResponse) =>
            LET s == reqs[r]
            IN  /\ ~SignatureGood(s) => s.resp = Response(401, "invalid_signature", 0)
                /\ (SignatureGood(s) /\ SkewExcessive(s)) =>
                       s.resp = Response(401, "timestamp_skew", 0)
                /\ (SignatureGood(s) /\ ~SkewExcessive(s) /\ IdentityUnknown(s)) =>
                       s.resp = Response(401, "unknown_identity", 0)
                /\ (SignatureGood(s) /\ ~SkewExcessive(s) /\ IdentityInactive(s)) =>
                       s.resp = Response(401, "inactive_identity", 0)


\* The middleware has accepted the signature of the request in this slot.
PassedVerification(s) ==
    /\ s.pc \notin {"idle", "off", "verify"}
    /\ s.pc = "done" =>
           s.resp[1].code \notin {"missing_auth", "timestamp_skew", "invalid_signature"}

C13_ReplayRejected ==
    \A r \in Slots \ {1} :
        (/\ reqs[r].req = reqs[r - 1].req
         /\ reqs[r - 1].pc = "done" /\ reqs[r - 1].auth # <<>>
         /\ reqs[r].pc \notin {"idle", "verify", "lookup"}) =>
            /\ reqs[r].auth = <<>>
            /\ reqs[r].ran = 0
            /\ reqs[r].resp[1].status = 401


\* C14: the identity lookup reads the status that is committed when it runs:
\* whenever a lookup runs for a key whose row has a status other than active,
\* whatever the row's status was when the request arrived and whatever other
\* requests are in flight, the request is answered 401 inactive_identity and
\* gets no auth context.
C14_LookupReadsCommittedStatus ==
    [][\A r \in Slots :
        (/\ reqs[r].pc = "lookup"
         /\ reqs'[r] # reqs[r]
         /\ reqs[r].req.publicKey[1] \in DOMAIN clawfiles
         /\ clawfiles[reqs[r].req.publicKey[1]].status # "active") =>
            /\ reqs'[r].resp = Response(401, "inactive_identity", 0)
            /\ reqs'[r].auth = <<>>
            /\ reqs'[r].ran = 0]_vars

\* C14 witness: of two requests by the same key, one was let through while the
\* key was active and the other, looked up after the status had changed, has
\* been answered inactive_identity.
C14_Witness ==
    \E r1, r2 \in Slots :
        /\ r1 # r2
        /\ reqs[r1].auth # <<>>
        /\ Checked(r2)
        /\ reqs[r2].req.publicKey = reqs[r1].req.publicKey
        /\ reqs[r2].resp = Response(401, "inactive_identity", 0)
        /\ clawfiles[reqs[r2].req.publicKey[1]].status = "suspended"


\* A registration whose body passes the handler's validation.
WellFormedRegistration(req) ==
    /\ req.route = "register"
    /\ ~FieldsMissing(req.body)
    /\ ~MentionRejected(req.body.mention_name[1])

\* C15: under any interleaving of registrations no two identity records share
\* a mention_name, and no two share a public_key: the table holds one record
\* per key, and a record that is stored is never replaced or changed by a later
\* registration of the same key.
C15_KeysAndMentionsUnique ==
    /\ [](\A p, q \in DOMAIN clawfiles :
            p # q => clawfiles[p].mention_name # clawfiles[q].mention_name)
    /\ [][\A pk \in DOMAIN clawfiles :
            pk \in DOMAIN clawfiles' /\ clawfiles'[pk] = clawfiles[pk]]_vars

\* C15 witness: two registrations of different keys under one mention name
\* were in flight together; one has been answered 201 and the other was
\* stopped by the table's constraint.
C15_Witness ==
    \E r1, r2 \in Slots :
        /\ WellFormedRegistration(reqs[r1].req) /\ WellFormedRegistration(reqs[r2].req)
        /\ reqs[r1].req.body.mention_name = reqs[r2].req.body.mention_name
        /\ reqs[r1].req.body.public_key # reqs[r2].req.body.public_key
        /\ reqs[r1].resp = Response(201, "created", 0)
        /\ reqs[r2].resp = Response(500, "internal_error", 0)

\* C16: a well-formed registration that is answered while its mention_name is
\* held by the record of another key is answered 409 conflict, and the step that
\* answers it adds no record.
C16_TakenMentionIsConflict ==
    [][\A r \in Slots :
        (/\ reqs[r].pc # "done" /\ reqs'[r].pc = "done"
         /\ WellFormedRegistration(reqs'[r].req)
         /\ \E pk \in DOMAIN clawfiles :
               /\ pk # reqs'[r].req.body.public_key[1]
               /\ clawfiles[pk].mention_name = reqs'[r].req.body.mention_name[1]) =>
            /\ reqs'[r].resp = Response(409, "conflict", 0)
            /\ clawfiles' = clawfiles
            /\ clawfile_profiles' = clawfile_profiles]_vars

\* C17: in every state, every identity record in clawfiles has its
\* clawfile_profiles row.
C17_ProfileWithEveryClawfile ==
    \A pk \in DOMAIN clawfiles : pk \in DOMAIN clawfile_profiles


(***************************************************************************)
(* C18: in every reachable state the lineage pointers are consistent: a    *)
(* record with rotated_to = X has status rotated, the record X exists and  *)
(* has rotated_from pointing back; every record has at most one            *)
(* predecessor and at most one successor; following rotated_to never       *)
(* revisits a record.                                                      *)
(***************************************************************************)
Predecessors(x) == {p \in DOMAIN clawfiles : clawfiles[p].rotated_to = <<x>>}
Successors(p) == {x \in DOMAIN clawfiles : clawfiles[x].rotated_from = <<p>>}

\* The records met by following rotated_to from pk for at most n steps.
RECURSIVE Forward(_, _)
Forward(pk, n) ==
    IF n = 0 \/ pk \notin DOMAIN clawfiles \/ clawfiles[pk].rotated_to = <<>>
    THEN {}
    ELSE LET x == clawfiles[pk].rotated_to[1]
         IN  {x} \cup Forward(x, n - 1)

C18_LineageConsistent ==
    /\ \A pk \in DOMAIN clawfiles :
          clawfiles[pk].rotated_to # <<>> =>
              LET x == clawfiles[pk].rotated_to[1]
              IN  /\ clawfiles[pk].status = "rotated"
                  /\ x \in DOMAIN clawfiles
                  /\ clawfiles[x].rotated_from = <<pk>>
    /\ \A pk \in DOMAIN clawfiles :
          /\ Cardinality(Predecessors(pk)) <= 1
          /\ Cardinality(Successors(pk)) <= 1
          /\ pk \notin Forward(pk, Cardinality(DOMAIN clawfiles))

\* A rotation is on record, and the successor's own rotation request and a
\* registration of a third key have both gone through the API.
C18_Witness ==
    /\ \E pk \in DOMAIN clawfiles :
          /\ clawfiles[pk].rotated_to # <<>>
          /\ reqs[1].pc = "done"
          /\ reqs[1].req.route = "rotate"
          /\ reqs[1].req.publicKey = clawfiles[pk].rotated_to
          /\ reqs[1].resp[1].status = 501
    /\ pkC \in DOMAIN clawfiles


(***************************************************************************)
(* C19: every identity has exactly one status out of active, rotated,      *)
(* suspended and archived at any time, and once the status of an identity  *)
(* is rotated or archived no operation of the API changes it again.        *)
(***************************************************************************)
TerminalStatuses == {"rotated", "archived"}

C19_TerminalStatusKept ==
    /\ [](\A pk \in DOMAIN clawfiles : clawfiles[pk].status \in Statuses)
    /\ [][\A pk \in DOMAIN clawfiles :
             clawfiles[pk].status \in TerminalStatuses =>
                 /\ pk \in DOMAIN clawfiles'
                 /\ clawfiles'[pk].status = clawfiles[pk].status]_vars

\* The key of a rotated or archived identity has been registered again and
\* the registration has been answered.
C19_Witness ==
    /\ reqs[1].pc = "done"
    /\ reqs[1].req.route = "register"
    /\ reqs[1].req.body.public_key[1] \in DOMAIN clawfiles
    /\ clawfiles[reqs[1].req.body.public_key[1]].status \in TerminalStatuses
    /\ reqs[1].resp[1].status = 500


(***************************************************************************)
(* C20: for every identity verification_tier is always an integer in 0..3  *)
(* and never decreases across any sequence of API operations (register,    *)
(* profile update, post, follow, rotate).                                  *)
(***************************************************************************)
C20_TierNeverDecreases ==
    /\ [](\A pk \in DOMAIN clawfiles : clawfiles[pk].verification_tier \in Tiers)
    /\ [][\A pk \in DOMAIN clawfiles :
             /\ pk \in DOMAIN clawfiles'
             /\ clawfiles'[pk].verification_tier >= clawfiles[pk].verification_tier]_vars

\* An identity above tier 0 has sent a profile update that names tier 0, the
\* update has been written and answered, and a registration has added a row.
C20_Witness ==
    /\ reqs[1].pc = "done"
    /\ reqs[1].req.route = "patch_me"
    /\ reqs[1].req.body.verification_tier = <<0>>
    /\ reqs[1].resp[1].status = 200
    /\ clawfiles[reqs[1].auth[1].publicKey].display_name = "renamed"
    /\ clawfiles[reqs[1].auth[1].publicKey].verification_tier > 0
    /\ pkC \in DOMAIN clawfiles


(***************************************************************************)
(* C21: identity records are never physically deleted: across any sequence *)
(* of API operations the set of registered public keys only grows, so      *)
(* every key once registered still resolves to a record.                   *)
(***************************************************************************)
C21_KeysOnlyGrow ==
    [][DOMAIN clawfiles \subseteq DOMAIN clawfiles']_vars

\* An unfollow has deleted a follows row and has been answered, and the
\* unfollowed identity is still registered.
C21_Witness ==
    /\ reqs[1].pc = "done"
    /\ reqs[1].req.route = "unfollow"
    /\ reqs[1].resp[1].status = 200
    /\ reqs[1].target # <<>>
    /\ reqs[1].target[1] \in DOMAIN clawfiles
    /\ clawfile_profiles[reqs[1].target[1]].follower_count > 0
    /\ <<reqs[1].auth[1].publicKey, reqs[1].target[1]>> \notin follows


(***************************************************************************)
(* C22: a profile update (PATCH /clawfiles/me) changes only the caller's   *)
(* own record and only display_name, bio, principles and avatar_url: the   *)
(* mention_name, public_key, status, verification_tier and rotation        *)
(* pointers of every identity, and all fields of every other identity,     *)
(* are left unchanged.                                                     *)
(***************************************************************************)
\* The row with its display_name blanked: what a profile update may not touch.
FixedColumns(row) == [row EXCEPT !.display_name = ""]
FixedProfileColumns(row) == [row EXCEPT !.bio = ""]

\* Slot r holds a profile update that has not been answered yet.
PatchInFlight(r) ==
    reqs[r].req.route = "patch_me" /\ reqs[r].pc \notin {"idle", "off", "done"}

C22_PatchFrame ==
    [][\A r \in Slots :
          PatchInFlight(r) =>
              /\ DOMAIN clawfiles' = DOMAIN clawfiles
              /\ DOMAIN clawfile_profiles' = DOMAIN clawfile_profiles
              /\ \A pk \in DOMAIN clawfiles :
                    /\ FixedColumns(clawfiles'[pk]) = FixedColumns(clawfiles[pk])
                    /\ pk # reqs[r].req.publicKey[1] => clawfiles'[pk] = clawfiles[pk]
              /\ \A pk \in DOMAIN clawfile_profiles :
                    /\ FixedProfileColumns(clawfile_profiles'[pk]) =
                           FixedProfileColumns(clawfile_profiles[pk])
                    /\ pk # reqs[r].req.publicKey[1] =>
                           clawfile_profiles'[pk] = clawfile_profiles[pk]
              /\ UNCHANGED <<follows, key_rotations, plaza_messages, ledger_entries>>]_vars

\* A profile update has written the caller's display_name and been answered,
\* beside another identity whose name is as it was.
C22_Witness ==
    /\ reqs[1].pc = "done"
    /\ reqs[1].req.route = "patch_me"
    /\ reqs[1].resp[1].status = 200
    /\ clawfiles[reqs[1].req.publicKey[1]].display_name = "renamed"
    /\ \E pk \in DOMAIN clawfiles :
          pk # reqs[1].req.publicKey[1] /\ clawfiles[pk].display_name = "name"


(***************************************************************************)
(* C23: verifySignature never throws: for every combination of public-key  *)
(* string, message and signature string, including undecodable base64, a   *)
(* missing or unsupported algorithm tag, and wrong-length keys or          *)
(* signatures, it returns a boolean, and it returns false for every such   *)
(* failure.                                                                *)
(***************************************************************************)
\* The call of verifySignature has returned or thrown.
VerifyDone == call.fn \in {"verifySignature", "roundTrip"} /\ call.pc = "returned"

UndecodableBase64 == call.publicKey[1] \in NotBase64Payloads \/ ~call.signature.b64
BadAlgorithmTag == Len(call.publicKey) < 2 \/ call.publicKey[2] # "ed25519"
WrongLength == call.publicKey[1] \in ShortPayloads \/ call.signature = ShortSignature

C23_VerifyNeverThrows ==
    VerifyDone =>
        /\ ~call.result[1].threw
        /\ call.result[1].value \in BOOLEAN
        /\ (UndecodableBase64 \/ BadAlgorithmTag \/ WrongLength) =>
               call.result[1].value = FALSE

\* verifySignature has returned false on a key of the wrong length, with a
\* library that throws on it, and the signature was well formed.
C23_Witness ==
    /\ VerifyDone
    /\ call.publicKey = <<"short", "ed25519">>
    /\ call.signature = signMessage("kA", call.message)
    /\ call.throws
    /\ call.result = <<Returned(FALSE)>>


(***************************************************************************)
(* C24: verifySignature returns false for every public-key string that is  *)
(* not exactly of the form '<payload>:ed25519': a string with no algorithm *)
(* tag, with a tag other than ed25519, or with additional ':'-separated    *)
(* segments after the tag is rejected whatever the signature is.           *)
(***************************************************************************)
ExactForm(publicKey) == Len(publicKey) = 2 /\ publicKey[2] = "ed25519"

C24_OnlyExactFormVerifies ==
    (VerifyDone /\ ~ExactForm(call.publicKey)) => call.result = <<Returned(FALSE)>>

(***************************************************************************)
(* C25: round trip: for every message and every key pair returned by       *)
(* generateKeyPair(), verifySignature(pair.publicKey, message,             *)
(* signMessage(pair.privateKey, message)) is true.                         *)
(***************************************************************************)
C25_RoundTrip ==
    (call.fn = "roundTrip" /\ call.pc = "returned") => call.result = <<Returned(TRUE)>>

(***************************************************************************)
(* C26: buildCanonicalString(method, path, timestamp, body) returns        *)
(* exactly the string that authMiddleware builds and verifies for a        *)
(* request with the same method, path, timestamp and body.                 *)
(***************************************************************************)
C26_CanonicalStringsAgree ==
    (call.fn = "buildCanonicalString" /\ call.pc = "returned") =>
        LET input == call.canonical[1]
        IN  call.result[1].value =
                canonicalString(input.method, input.path, input.timestamp, input.body)


(***************************************************************************)
(* C27: the path component of the canonical string that authMiddleware     *)
(* verifies excludes the query string: two requests that are identical     *)
(* except for their query string yield the same canonical string, so one   *)
(* signature is valid for both.                                            *)
(***************************************************************************)
\* Both requests of the pair have been answered.
PairDone == reqs[1].pc = "done" /\ reqs[2].pc = "done"

SameButQuery(a, b) == a.query # b.query /\ [a EXCEPT !.query = b.query] = b

SignatureRefused(s) == s.resp[1].code = "invalid_signature"

C27_QueryNotSigned ==
    (PairDone /\ SameButQuery(reqs[1].req, reqs[2].req)
              /\ ~HeadersMissing(reqs[1].req)) =>
        /\ RequestCanonical(reqs[1].req) = RequestCanonical(reqs[2].req)
        /\ SignatureRefused(reqs[1]) <=> SignatureRefused(reqs[2])

(***************************************************************************)
(* C28: malformed credentials and wrong signatures are indistinguishable   *)
(* in the response: for two requests that are identical except that one    *)
(* carries an undecodable or malformed public key or signature and the     *)
(* other a well-formed but wrong signature, authMiddleware returns the     *)
(* same status, error code and message.                                    *)
(***************************************************************************)
MalformedCredentials(req) ==
    \/ ~ExactForm(req.publicKey[1])
    \/ req.publicKey[1][1] \in NotBase64Payloads \cup ShortPayloads
    \/ ~req.signature[1].b64
    \/ req.signature[1] = ShortSignature

WellFormedButWrong(req) ==
    /\ ExactForm(req.publicKey[1])
    /\ req.publicKey[1][1] \in KeyPayloads
    /\ req.signature[1].b64
    /\ req.signature[1] # ShortSignature
    /\ ~edVerify(req.signature[1], RequestCanonical(req), req.publicKey[1][1])

SameButCredentials(a, b) ==
    [a EXCEPT !.publicKey = b.publicKey, !.signature = b.signature] = b

C28_MalformedLooksLikeWrong ==
    (PairDone /\ SameButCredentials(reqs[1].req, reqs[2].req)
              /\ MalformedCredentials(reqs[1].req)
              /\ WellFormedButWrong(reqs[2].req)) =>
        reqs[1].resp = reqs[2].resp


(***************************************************************************)
(* C29: the rate policy acts on the tier the identity currently carries: a *)
(* POST /plaza request authenticated as an identity of tier 1, 2 or 3 is   *)
(* never rejected with rate_limited, however many posts that identity has  *)
(* already made on the current day.                                        *)
(***************************************************************************)
\* Slot r holds a post request of an authenticated identity above tier 0.
VerifiedPost(r) ==
    /\ reqs[r].req.route = "plaza_post"
    /\ reqs[r].auth # <<>>
    /\ clawfiles[reqs[r].auth[1].publicKey].verification_tier \in 1..3

C29_VerifiedNeverRateLimited ==
    \A r \in Slots :
        VerifiedPost(r) =>
            /\ reqs[r].pc # "plaza_count"
            /\ reqs[r].pc = "done" => reqs[r].resp[1].code # "rate_limited"

\* An identity above tier 0 has had a post accepted on a day on which two
\* posts of its own were already stored.
C29_Witness ==
    \E r \in Slots :
        /\ VerifiedPost(r)
        /\ reqs[r].pc = "done"
        /\ reqs[r].resp[1].status = 201
        /\ Cardinality(OtherPosts(reqs[r].auth[1].publicKey, DateOf(reqs[r].created_at),
                                  reqs[r].id)) >= 2


(***************************************************************************)
(* C30: every stored plaza message carries, in its signature field, the    *)
(* signature that its author supplied with the creating request, so that   *)
(* authorship of stored content stays provable against the author's key;   *)
(* this holds for every message after any sequence of post operations.     *)
(***************************************************************************)
C30_StoredSignatureIsAuthors ==
    /\ \A m \in plaza_messages :
          m.signature.b64 /\ m.signature.signer = m.author_id[1]
    /\ \A r \in Slots : \A m \in plaza_messages :
          (reqs[r].req.route = "plaza_post" /\ reqs[r].pc \in {"plaza_ledger", "done"}
              /\ reqs[r].id = m.id) =>
                  <<m.signature>> = reqs[r].req.signature


(***************************************************************************)
(* C31: every successful registration creates the identity with            *)
(* verification_tier 0 and status active, with no rotation pointers,       *)
(* whatever the request body contains; registration can never create an    *)
(* identity at a higher tier or in a non-active status.                    *)
(***************************************************************************)
C31_RegistersAtTierZeroActive ==
    [][\A pk \in DOMAIN clawfiles' \ DOMAIN clawfiles :
          /\ clawfiles'[pk].verification_tier = 0
          /\ clawfiles'[pk].status = "active"
          /\ clawfiles'[pk].rotated_from = <<>>
          /\ clawfiles'[pk].rotated_to = <<>>]_vars

\* A registration whose body names tier 3, status archived and a predecessor
\* has been answered 201, and the identity it created is active at tier 0.
C31_Witness ==
    /\ reqs[1].pc = "done"
    /\ reqs[1].req.route = "register"
    /\ reqs[1].resp[1].status = 201
    /\ reqs[1].req.body.verification_tier = <<3>>
    /\ reqs[1].req.body.status = <<"archived">>
    /\ clawfiles[reqs[1].req.body.public_key[1]].verification_tier = 0
    /\ clawfiles[reqs[1].req.body.public_key[1]].status = "active"


(***************************************************************************)
(* C33: in every reachable state the follows relation contains no          *)
(* self-follow and at most one row per (follower, following) pair; a       *)
(* follow request for an already-followed target is rejected with 409      *)
(* conflict and leaves the relation unchanged, also when two identical     *)
(* follow requests run concurrently.                                       *)
(***************************************************************************)
\* Slot r is about to run the INSERT for a pair that is already stored.
InsertsStoredPair(r) ==
    /\ reqs[r].pc = "follow_insert"
    /\ <<reqs[r].auth[1].publicKey, reqs[r].target[1]>> \in follows

C33_FollowsWithoutDuplicates ==
    /\ [](\A row \in follows : row[1] # row[2])
    /\ [][\A r \in Slots :
             (InsertsStoredPair(r) /\ reqs'[r].pc = "done") =>
                 /\ reqs'[r].resp = Response(409, "conflict", 0)
                 /\ UNCHANGED <<follows, clawfile_profiles>>]_vars

\* Two identical follow requests have been answered, one 201 and the other
\* 409, and the pair is stored with a follower count of one.
C33_Witness ==
    /\ reqs[1].pc = "done" /\ reqs[2].pc = "done"
    /\ reqs[1].req = reqs[2].req
    /\ reqs[1].req.route = "follow"
    /\ reqs[1].resp[1].status = 201
    /\ reqs[2].resp = Response(409, "conflict", 0)
    /\ reqs[2].ran = 1
    /\ <<reqs[1].auth[1].publicKey, reqs[1].target[1]>> \in follows
    /\ clawfile_profiles[reqs[1].target[1]].follower_count = 1


(***************************************************************************)
(* C34: after any sequence of community create, join and leave operations  *)
(* (including a join by an existing member and a leave by a non-member),   *)
(* each community's member_count equals the number of community_members    *)
(* rows of that community, and is never negative.                          *)
(***************************************************************************)
\* No request is between two of its statements.
Quiescent == \A r \in Slots : reqs[r].pc \in {"idle", "off", "done"}

MembersOf(id) == {row \in community_members : row[1] = id}

C34_MemberCountIsRowCount ==
    Quiescent =>
        \A id \in DOMAIN communities :
            /\ communities[id].member_count = Cardinality(MembersOf(id))
            /\ communities[id].member_count >= 0


\* The DMs that hold both of two identities.
DmsOf(a, b) ==
    {w \in warrens : /\ w.type = "dm"
                     /\ <<w.id, a>> \in warren_members
                     /\ <<w.id, b>> \in warren_members}

\* C35: for any two identities there is at most one warren of type dm that
\* contains both, whatever the interleaving of the DM-creation requests of the
\* pair, from either side.
C35_OneDmPerPair ==
    \A a \in {pkA, pkB} : \A b \in {pkA, pkB} :
        a # b => Cardinality(DmsOf(a, b)) <= 1

\* The member rows of a warren.
WarrenMembersOf(id) == {row \in warren_members : row[1] = id}

\* C36: once no request is in flight, every warren of type dm has exactly two
\* members, the creator and one other identity; a DM-creation request that
\* cannot produce this leaves no warren and no member row behind.
C36_DmHasTwoMembers ==
    Quiescent =>
        \A w \in warrens :
            w.type = "dm" =>
                /\ Cardinality(WarrenMembersOf(w.id)) = 2
                /\ <<w.id, w.creator_id>> \in warren_members


\* The request in slot r passed authMiddleware under the key pk: its signature
\* verifies under pk, its X-Public-Key is pk and auth was attached for pk.
Authenticated(r, pk) ==
    /\ reqs[r].auth # <<>>
    /\ reqs[r].auth[1].publicKey = pk
    /\ reqs[r].req.publicKey = <<pk>>
    /\ reqs[r].req.signature # <<>>
    /\ verifySignature(pk, RequestCanonical(reqs[r].req), reqs[r].req.signature[1])

\* The authors of the messages a step stores.
NewAuthors ==
    {m.author_id : m \in plaza_messages' \ plaza_messages}
    \cup {m.author_id : m \in warren_messages' \ warren_messages}

\* C32: the author_id of every stored plaza message and warren message is the
\* public key of a registered identity, and every step that stores a message
\* belongs to a request that passed authMiddleware under that key; a request
\* that authMiddleware refused stores no message.
C32_AuthorIsAuthenticatedKey ==
    /\ [](\A m \in plaza_messages : m.author_id \in DOMAIN clawfiles)
    /\ [](\A m \in warren_messages : m.author_id \in DOMAIN clawfiles)
    /\ [][\A pk \in NewAuthors :
            \E r \in Slots :
                /\ Authenticated(r, pk)
                /\ reqs[r].req.route \in {"plaza_post", "warren_send"}
                /\ reqs'[r].pc \in {"plaza_ledger", "warren_touch"}]_vars

\* A plaza message and a warren message written by someone other than the
\* creator of the warren are stored.
C32_Witness ==
    /\ plaza_messages # {}
    /\ \E m \in warren_messages : \E w \in warrens :
          w.id = m.warren_id /\ w.creator_id # m.author_id

\* The request in slot r reads or sends warren messages and its identity is
\* not a member of the warren it names.
NonMember(r) ==
    /\ reqs[r].req.route \in {"warren_read", "warren_send"}
    /\ reqs[r].auth # <<>>
    /\ ~IsMember(reqs[r].req.param, reqs[r].auth[1].publicKey)

\* The request in slot r was answered 403 forbidden.
Forbidden(r) ==
    /\ reqs[r].pc = "done"
    /\ reqs[r].resp[1].status = 403
    /\ reqs[r].resp[1].code = "forbidden"

\* A send request carries content; a read request needs none.
WithContent(r) ==
    reqs[r].req.route = "warren_send" => reqs[r].req.body.content # <<>>

\* Every stored warren message was written by a member of its warren.
WrittenByMembers ==
    \A m \in warren_messages : <<m.warren_id, m.author_id>> \in warren_members

\* C37: a request to read messages, or to send a message with content, by an
\* authenticated identity that is not a member of the warren is answered 403
\* forbidden, no step of such a request changes a table, and every stored
\* warren message was written by a member of its warren.
C37_MembersOnly ==
    /\ [](WrittenByMembers)
    /\ [](\A r \in Slots :
            reqs[r].pc = "done" /\ NonMember(r) /\ WithContent(r) => Forbidden(r))
    /\ [][\A r \in Slots :
            NonMember(r) /\ reqs'[r] # reqs[r] =>
                chat' = chat /\ store' = store /\ nextId' = nextId]_vars

\* kB was refused a message with content for a stored warren of which it is
\* not a member, while a message of a member is stored.
C37_Witness ==
    /\ warren_messages # {}
    /\ \E r \in Slots :
          /\ NonMember(r)
          /\ Forbidden(r)
          /\ reqs[r].req.route = "warren_send"
          /\ reqs[r].req.body.content # <<>>
          /\ \E w \in warrens : w.id = reqs[r].req.param

\* C37 as stated: every read or send request of a non-member is answered 403
\* forbidden.
C37_AlwaysForbidden ==
    /\ WrittenByMembers
    /\ \A r \in Slots : reqs[r].pc = "done" /\ NonMember(r) => Forbidden(r)

====
